---------------------------- MODULE Spec2Model ----------------------------
(***************************************************************************)
(* The firehose pipeline of grapevine (src/src/firehose.rs): the Jetstream *)
(* thread forwards decoded posts over an unbounded flume channel, a local  *)
(* future collects them into message_buffer, a 200 ms glib timer drains    *)
(* the buffer into the main list and every split list unless scrolling     *)
(* paused it, and each list keeps at most 100 rows, newest first.          *)
(*                                                                         *)
(* Time is counted in periods of the timer (200 ms) since                  *)
(* create_firehose_view ran.                                               *)
(* A text is the sequence of the code points of its characters.  A post is *)
(* a record [nth, did, rkey, text]: did and rkey are the UTF-8 bytes and   *)
(* text the characters of the strings of the FirehosePost, nth numbers the *)
(* post in the order of tx.send.                                           *)
(* A ListBox is the sequence of the posts of its rows, first child first.  *)
(***************************************************************************)
EXTENDS Integers, Sequences, FiniteSets, TLC

VARIABLES
    now,                  \* std::time::Instant::now()
    next_tick,            \* expiration of the glib timeout source
    scroll_paused_until,  \* Rc<RefCell<Instant>>
    chan,                 \* flume::unbounded channel, tx -> rx
    message_buffer,       \* Rc<RefCell<Vec<FirehosePost>>>
    main_filter_keyword,  \* keyword of the main pane
    main_list,            \* rows of the main ListBox
    splits,               \* FirehoseControl.splits: Vec<SplitPane>; the field `since`
                          \* is history: Len(dispatched) when the list was last emptied
    widgets,              \* number of split containers built so far
    forwarded,            \* history: every post tx.send accepted
    dispatched,           \* history: every post the timer's loop has reached
    main_since,           \* history: Len(dispatched) when main_list was last emptied
    held,                 \* history: posts collected while paused, not yet processed
    released,             \* history: the held posts of the latest processed batch
    layout,               \* containers shown under root_container, in order
    signal_from,          \* history: container whose scroll handler ran last, -1: none
    context_alive,        \* the glib main context holds its sources: the receiver
                          \* future, owner of rx, and the timer
    closed,               \* history: containers whose close button was clicked
    bridge,               \* the thread of start_jetstream: "connecting", "streaming",
                          \* "ok" (returned Ok(())), "err" (returned Err),
                          \* "panicked" (Runtime::new().unwrap() panicked)
    skipped,              \* history: events the loop of start_jetstream received
                          \* and did not turn into a post
    stderr,               \* lines the thread of start_jetstream wrote with eprintln!
    stopped_at,           \* history: Len(dispatched) when the thread of
                          \* start_jetstream ended, -1 before
    root_shape,           \* root_container: "unallocated" (width and height 0),
                          \* "wide" (width > height) or "tall"
    horizontal,           \* the Paned widgets under the root are horizontal; FALSE
                          \* when there is none
    tick_callbacks,       \* tick callbacks rebuild_layout has added to the root
                          \* container, each owner of a clone of the control
    process               \* the process: "running", "aborted" by a panic in a
                          \* callback of the main loop, or "exited"

vars == <<now, next_tick, scroll_paused_until, chan, message_buffer,
          main_filter_keyword, main_list, splits, widgets,
          forwarded, dispatched, main_since, held, released,
          layout, signal_from, context_alive, closed, bridge,
          skipped, stderr, stopped_at,
          root_shape, horizontal, tick_callbacks, process>>

---------------------------------------------------------------------------
(* Program constants *)

\* Duration::from_secs(2)
PauseSecs == 2

\* Duration::from_millis(200)
TickMillis == 200

\* if count > 100
MaxMessages == 100

Cooldown == (PauseSecs * 1000) \div TickMillis

TickPeriod == TickMillis \div TickMillis

---------------------------------------------------------------------------
(* Bounds of the model *)

\* Spec: the clock stops here, the Jetstream thread after this many posts,
\* add_split after this many split panes
MaxTime == 2

MaxPosts == 2

MaxWidgets == 1

\* SpecGate: a pause runs out within the horizon
GateTime == 11

GateLate == 1

GatePosts == 3

\* SpecVolume: more posts than a list keeps
VolumePosts == 105

VolumeTime == 1

\* SpecFanout: one batch of posts over several panes
FanoutPosts == 3

FanoutWidgets == 2

\* SpecRegistry: splits added and closed around two ticks
RegistryPosts == 2

RegistryWidgets == 2

RegistryTime == 2

\* SpecBridge: the thread of start_jetstream from connecting to its return
BridgePosts == 3

BridgeTime == 2
\* events that are not posts
BridgeSkips == 2

\* SpecLive: scrolls stop, the timer and the receiver go on
LivePosts == 2
\* the last time at which a pane is scrolled
LiveScroll == 1

\* SpecStarve: the main pane is scrolled again before each pause runs out
StarvePosts == 101

StarveTime == 11

\* SpecExit: the window is closed while posts are on their way
ExitPosts == 3

ExitTime == 2

\* SpecLate: keywords are set and splits added while the posts wait
LatePosts == 2

LateWidgets == 1

\* SpecHandles: the clones of the control while the thread runs and returns
HandlePosts == 2

HandleTime == 2

HandleWidgets == 1

HandleCallbacks == 3

---------------------------------------------------------------------------
(* Strings *)

\* A character is a Rust `char`, a Unicode scalar value, written as its
\* number; a string is the sequence of its characters.

EmptyString == << >>

\* "I like cats"
TextCats == <<73, 32, 108, 105, 107, 101, 32, 99, 97, 116, 115>>

\* "dogs only"
TextDogs == <<100, 111, 103, 115, 32, 111, 110, 108, 121>>

\* "CAT scan results"
TextScan == <<67, 65, 84, 32, 115, 99, 97, 110, 32, 114, 101, 115, 117,
              108, 116, 115>>

\* "cat"
KeywordCat == <<99, 97, 116>>

\* "Dogs"
KeywordDogs == <<68, 111, 103, 115>>

\* "CAT"
TextShout == <<67, 65, 84>>

Texts == {TextCats, TextDogs, TextScan}

Keywords == {EmptyString, KeywordCat, KeywordDogs}

\* a text with capitals outside ASCII: I with dot above (U+0130), "CAF" and
\* E acute (U+00C9), and the Greek capitals omicron, delta, omicron, sigma
\* of a word that ends in sigma
TextCafe == <<304, 32, 67, 65, 70, 201, 32, 927, 916, 927, 931>>

\* the same words as they are typed in lower case: i and the combining dot
\* above (U+0307), "caf" and e acute (U+00E9), omicron, delta, omicron and
\* the final sigma (U+03C2)
KeywordCafe == <<105, 775, 32, 99, 97, 102, 233, 32, 959, 948, 959, 962>>

UnicodeTexts == Texts \cup {TextCafe}

UnicodeKeywords == Keywords \cup {KeywordCafe}

\* core::unicode::conversions::to_lower where the lower case is one
\* character (Unicode 17.0): a run <<first, last, step, delta>> gives
\* every step-th character from first to last the character delta places
\* on as its lower case
LowercaseRuns ==
    <<
      <<65, 90, 1, 32>>, <<192, 214, 1, 32>>, <<216, 222, 1, 32>>,
      <<256, 302, 2, 1>>, <<306, 310, 2, 1>>, <<313, 327, 2, 1>>,
      <<330, 374, 2, 1>>, <<376, 376, 1, -121>>, <<377, 381, 2, 1>>,
      <<385, 385, 1, 210>>, <<386, 388, 2, 1>>, <<390, 390, 1, 206>>,
      <<391, 391, 1, 1>>, <<393, 394, 1, 205>>, <<395, 395, 1, 1>>,
      <<398, 398, 1, 79>>, <<399, 399, 1, 202>>, <<400, 400, 1, 203>>,
      <<401, 401, 1, 1>>, <<403, 403, 1, 205>>, <<404, 404, 1, 207>>,
      <<406, 406, 1, 211>>, <<407, 407, 1, 209>>, <<408, 408, 1, 1>>,
      <<412, 412, 1, 211>>, <<413, 413, 1, 213>>, <<415, 415, 1, 214>>,
      <<416, 420, 2, 1>>, <<422, 422, 1, 218>>, <<423, 423, 1, 1>>,
      <<425, 425, 1, 218>>, <<428, 428, 1, 1>>, <<430, 430, 1, 218>>,
      <<431, 431, 1, 1>>, <<433, 434, 1, 217>>, <<435, 437, 2, 1>>,
      <<439, 439, 1, 219>>, <<440, 440, 1, 1>>, <<444, 444, 1, 1>>,
      <<452, 452, 1, 2>>, <<453, 453, 1, 1>>, <<455, 455, 1, 2>>,
      <<456, 456, 1, 1>>, <<458, 458, 1, 2>>, <<459, 475, 2, 1>>,
      <<478, 494, 2, 1>>, <<497, 497, 1, 2>>, <<498, 500, 2, 1>>,
      <<502, 502, 1, -97>>, <<503, 503, 1, -56>>, <<504, 542, 2, 1>>,
      <<544, 544, 1, -130>>, <<546, 562, 2, 1>>, <<570, 570, 1, 10795>>,
      <<571, 571, 1, 1>>, <<573, 573, 1, -163>>, <<574, 574, 1, 10792>>,
      <<577, 577, 1, 1>>, <<579, 579, 1, -195>>, <<580, 580, 1, 69>>,
      <<581, 581, 1, 71>>, <<582, 590, 2, 1>>, <<880, 882, 2, 1>>,
      <<886, 886, 1, 1>>, <<895, 895, 1, 116>>, <<902, 902, 1, 38>>,
      <<904, 906, 1, 37>>, <<908, 908, 1, 64>>, <<910, 911, 1, 63>>,
      <<913, 929, 1, 32>>, <<931, 939, 1, 32>>, <<975, 975, 1, 8>>,
      <<984, 1006, 2, 1>>, <<1012, 1012, 1, -60>>, <<1015, 1015, 1, 1>>,
      <<1017, 1017, 1, -7>>, <<1018, 1018, 1, 1>>, <<1021, 1023, 1, -130>>,
      <<1024, 1039, 1, 80>>, <<1040, 1071, 1, 32>>, <<1120, 1152, 2, 1>>,
      <<1162, 1214, 2, 1>>, <<1216, 1216, 1, 15>>, <<1217, 1229, 2, 1>>,
      <<1232, 1326, 2, 1>>, <<1329, 1366, 1, 48>>, <<4256, 4293, 1, 7264>>,
      <<4295, 4295, 1, 7264>>, <<4301, 4301, 1, 7264>>,
      <<5024, 5103, 1, 38864>>, <<5104, 5109, 1, 8>>, <<7305, 7305, 1, 1>>,
      <<7312, 7354, 1, -3008>>, <<7357, 7359, 1, -3008>>,
      <<7680, 7828, 2, 1>>, <<7838, 7838, 1, -7615>>, <<7840, 7934, 2, 1>>,
      <<7944, 7951, 1, -8>>, <<7960, 7965, 1, -8>>, <<7976, 7983, 1, -8>>,
      <<7992, 7999, 1, -8>>, <<8008, 8013, 1, -8>>, <<8025, 8031, 2, -8>>,
      <<8040, 8047, 1, -8>>, <<8072, 8079, 1, -8>>, <<8088, 8095, 1, -8>>,
      <<8104, 8111, 1, -8>>, <<8120, 8121, 1, -8>>, <<8122, 8123, 1, -74>>,
      <<8124, 8124, 1, -9>>, <<8136, 8139, 1, -86>>, <<8140, 8140, 1, -9>>,
      <<8152, 8153, 1, -8>>, <<8154, 8155, 1, -100>>,
      <<8168, 8169, 1, -8>>, <<8170, 8171, 1, -112>>,
      <<8172, 8172, 1, -7>>, <<8184, 8185, 1, -128>>,
      <<8186, 8187, 1, -126>>, <<8188, 8188, 1, -9>>,
      <<8486, 8486, 1, -7517>>, <<8490, 8490, 1, -8383>>,
      <<8491, 8491, 1, -8262>>, <<8498, 8498, 1, 28>>,
      <<8544, 8559, 1, 16>>, <<8579, 8579, 1, 1>>, <<9398, 9423, 1, 26>>,
      <<11264, 11311, 1, 48>>, <<11360, 11360, 1, 1>>,
      <<11362, 11362, 1, -10743>>, <<11363, 11363, 1, -3814>>,
      <<11364, 11364, 1, -10727>>, <<11367, 11371, 2, 1>>,
      <<11373, 11373, 1, -10780>>, <<11374, 11374, 1, -10749>>,
      <<11375, 11375, 1, -10783>>, <<11376, 11376, 1, -10782>>,
      <<11378, 11378, 1, 1>>, <<11381, 11381, 1, 1>>,
      <<11390, 11391, 1, -10815>>, <<11392, 11490, 2, 1>>,
      <<11499, 11501, 2, 1>>, <<11506, 11506, 1, 1>>,
      <<42560, 42604, 2, 1>>, <<42624, 42650, 2, 1>>,
      <<42786, 42798, 2, 1>>, <<42802, 42862, 2, 1>>,
      <<42873, 42875, 2, 1>>, <<42877, 42877, 1, -35332>>,
      <<42878, 42886, 2, 1>>, <<42891, 42891, 1, 1>>,
      <<42893, 42893, 1, -42280>>, <<42896, 42898, 2, 1>>,
      <<42902, 42920, 2, 1>>, <<42922, 42922, 1, -42308>>,
      <<42923, 42923, 1, -42319>>, <<42924, 42924, 1, -42315>>,
      <<42925, 42925, 1, -42305>>, <<42926, 42926, 1, -42308>>,
      <<42928, 42928, 1, -42258>>, <<42929, 42929, 1, -42282>>,
      <<42930, 42930, 1, -42261>>, <<42931, 42931, 1, 928>>,
      <<42932, 42946, 2, 1>>, <<42948, 42948, 1, -48>>,
      <<42949, 42949, 1, -42307>>, <<42950, 42950, 1, -35384>>,
      <<42951, 42953, 2, 1>>, <<42955, 42955, 1, -42343>>,
      <<42956, 42970, 2, 1>>, <<42972, 42972, 1, -42561>>,
      <<42997, 42997, 1, 1>>, <<65313, 65338, 1, 32>>,
      <<66560, 66599, 1, 40>>, <<66736, 66771, 1, 40>>,
      <<66928, 66964, 2, 39>>, <<66929, 66937, 2, 39>>,
      <<66941, 66953, 2, 39>>, <<66957, 66961, 2, 39>>,
      <<66965, 66965, 1, 39>>, <<68736, 68786, 1, 64>>,
      <<68944, 68965, 1, 32>>, <<71840, 71871, 1, 32>>,
      <<93760, 93791, 1, 32>>, <<93856, 93880, 1, 27>>,
      <<125184, 125217, 1, 34>>
    >>

\* the characters of the run r
RunChars(r) == {r[1] + r[3] * k : k \in 0..((r[2] - r[1]) \div r[3])}

\* the run the character c is in
RunOf(c) ==
    CHOOSE k \in 1..Len(LowercaseRuns) : c \in RunChars(LowercaseRuns[k])

\* core::unicode::conversions::to_lower as a function from the characters
\* that have a lower case: the characters of the runs, and U+0130, whose
\* lower case is two characters, i and the combining dot above
LowercaseTable ==
    [c \in UNION {RunChars(LowercaseRuns[k]) : k \in 1..Len(LowercaseRuns)}
        |-> <<c + LowercaseRuns[RunOf(c)][4]>>]
    @@ (304 :> <<105, 775>>)

\* char::to_lowercase: the lower case of c, one or two characters; a
\* character without a lower case is left as it is.  The test on ASCII
\* comes first, as in the library.
LowercaseChar(c) ==
    IF c < 128
    THEN IF c \in 65..90 THEN <<c + 32>> ELSE <<c>>
    ELSE IF c \in DOMAIN LowercaseTable
    THEN LowercaseTable[c]
    ELSE <<c>>

\* the ranges <<first, last>> of core::unicode::Cased (Unicode 17.0)
CasedRanges ==
    {
     <<65, 90>>, <<97, 122>>, <<170, 170>>, <<181, 181>>, <<186, 186>>,
     <<192, 214>>, <<216, 246>>, <<248, 442>>, <<444, 447>>, <<452, 659>>,
     <<662, 696>>, <<704, 705>>, <<736, 740>>, <<837, 837>>, <<880, 883>>,
     <<886, 887>>, <<890, 893>>, <<895, 895>>, <<902, 902>>, <<904, 906>>,
     <<908, 908>>, <<910, 929>>, <<931, 1013>>, <<1015, 1153>>,
     <<1162, 1327>>, <<1329, 1366>>, <<1376, 1416>>, <<4256, 4293>>,
     <<4295, 4295>>, <<4301, 4301>>, <<4304, 4346>>, <<4348, 4351>>,
     <<5024, 5109>>, <<5112, 5117>>, <<7296, 7306>>, <<7312, 7354>>,
     <<7357, 7359>>, <<7424, 7615>>, <<7680, 7957>>, <<7960, 7965>>,
     <<7968, 8005>>, <<8008, 8013>>, <<8016, 8023>>, <<8025, 8025>>,
     <<8027, 8027>>, <<8029, 8029>>, <<8031, 8061>>, <<8064, 8116>>,
     <<8118, 8124>>, <<8126, 8126>>, <<8130, 8132>>, <<8134, 8140>>,
     <<8144, 8147>>, <<8150, 8155>>, <<8160, 8172>>, <<8178, 8180>>,
     <<8182, 8188>>, <<8305, 8305>>, <<8319, 8319>>, <<8336, 8348>>,
     <<8450, 8450>>, <<8455, 8455>>, <<8458, 8467>>, <<8469, 8469>>,
     <<8473, 8477>>, <<8484, 8484>>, <<8486, 8486>>, <<8488, 8488>>,
     <<8490, 8493>>, <<8495, 8500>>, <<8505, 8505>>, <<8508, 8511>>,
     <<8517, 8521>>, <<8526, 8526>>, <<8544, 8575>>, <<8579, 8580>>,
     <<9398, 9449>>, <<11264, 11492>>, <<11499, 11502>>, <<11506, 11507>>,
     <<11520, 11557>>, <<11559, 11559>>, <<11565, 11565>>,
     <<42560, 42605>>, <<42624, 42653>>, <<42786, 42887>>,
     <<42891, 42894>>, <<42896, 42972>>, <<42993, 42998>>,
     <<43000, 43002>>, <<43824, 43866>>, <<43868, 43881>>,
     <<43888, 43967>>, <<64256, 64262>>, <<64275, 64279>>,
     <<65313, 65338>>, <<65345, 65370>>, <<66560, 66639>>,
     <<66736, 66771>>, <<66776, 66811>>, <<66928, 66938>>,
     <<66940, 66954>>, <<66956, 66962>>, <<66964, 66965>>,
     <<66967, 66977>>, <<66979, 66993>>, <<66995, 67001>>,
     <<67003, 67004>>, <<67456, 67456>>, <<67459, 67461>>,
     <<67463, 67504>>, <<67506, 67514>>, <<68736, 68786>>,
     <<68800, 68850>>, <<68944, 68965>>, <<68976, 68997>>,
     <<71840, 71903>>, <<93760, 93823>>, <<93856, 93880>>,
     <<93883, 93907>>, <<119808, 119892>>, <<119894, 119964>>,
     <<119966, 119967>>, <<119970, 119970>>, <<119973, 119974>>,
     <<119977, 119980>>, <<119982, 119993>>, <<119995, 119995>>,
     <<119997, 120003>>, <<120005, 120069>>, <<120071, 120074>>,
     <<120077, 120084>>, <<120086, 120092>>, <<120094, 120121>>,
     <<120123, 120126>>, <<120128, 120132>>, <<120134, 120134>>,
     <<120138, 120144>>, <<120146, 120485>>, <<120488, 120512>>,
     <<120514, 120538>>, <<120540, 120570>>, <<120572, 120596>>,
     <<120598, 120628>>, <<120630, 120654>>, <<120656, 120686>>,
     <<120688, 120712>>, <<120714, 120744>>, <<120746, 120770>>,
     <<120772, 120779>>, <<122624, 122633>>, <<122635, 122654>>,
     <<122661, 122666>>, <<122928, 122989>>, <<125184, 125251>>,
     <<127280, 127305>>, <<127312, 127337>>, <<127344, 127369>>
    }

\* core::unicode::Cased
Cased == UNION {r[1]..r[2] : r \in CasedRanges}

\* the ranges <<first, last>> of core::unicode::Case_Ignorable (Unicode
\* 17.0)
CaseIgnorableRanges ==
    {
     <<39, 39>>, <<46, 46>>, <<58, 58>>, <<94, 94>>, <<96, 96>>,
     <<168, 168>>, <<173, 173>>, <<175, 175>>, <<180, 180>>, <<183, 184>>,
     <<688, 879>>, <<884, 885>>, <<890, 890>>, <<900, 901>>, <<903, 903>>,
     <<1155, 1161>>, <<1369, 1369>>, <<1375, 1375>>, <<1425, 1469>>,
     <<1471, 1471>>, <<1473, 1474>>, <<1476, 1477>>, <<1479, 1479>>,
     <<1524, 1524>>, <<1536, 1541>>, <<1552, 1562>>, <<1564, 1564>>,
     <<1600, 1600>>, <<1611, 1631>>, <<1648, 1648>>, <<1750, 1757>>,
     <<1759, 1768>>, <<1770, 1773>>, <<1807, 1807>>, <<1809, 1809>>,
     <<1840, 1866>>, <<1958, 1968>>, <<2027, 2037>>, <<2042, 2042>>,
     <<2045, 2045>>, <<2070, 2093>>, <<2137, 2139>>, <<2184, 2184>>,
     <<2192, 2193>>, <<2199, 2207>>, <<2249, 2306>>, <<2362, 2362>>,
     <<2364, 2364>>, <<2369, 2376>>, <<2381, 2381>>, <<2385, 2391>>,
     <<2402, 2403>>, <<2417, 2417>>, <<2433, 2433>>, <<2492, 2492>>,
     <<2497, 2500>>, <<2509, 2509>>, <<2530, 2531>>, <<2558, 2558>>,
     <<2561, 2562>>, <<2620, 2620>>, <<2625, 2626>>, <<2631, 2632>>,
     <<2635, 2637>>, <<2641, 2641>>, <<2672, 2673>>, <<2677, 2677>>,
     <<2689, 2690>>, <<2748, 2748>>, <<2753, 2757>>, <<2759, 2760>>,
     <<2765, 2765>>, <<2786, 2787>>, <<2810, 2815>>, <<2817, 2817>>,
     <<2876, 2876>>, <<2879, 2879>>, <<2881, 2884>>, <<2893, 2893>>,
     <<2901, 2902>>, <<2914, 2915>>, <<2946, 2946>>, <<3008, 3008>>,
     <<3021, 3021>>, <<3072, 3072>>, <<3076, 3076>>, <<3132, 3132>>,
     <<3134, 3136>>, <<3142, 3144>>, <<3146, 3149>>, <<3157, 3158>>,
     <<3170, 3171>>, <<3201, 3201>>, <<3260, 3260>>, <<3263, 3263>>,
     <<3270, 3270>>, <<3276, 3277>>, <<3298, 3299>>, <<3328, 3329>>,
     <<3387, 3388>>, <<3393, 3396>>, <<3405, 3405>>, <<3426, 3427>>,
     <<3457, 3457>>, <<3530, 3530>>, <<3538, 3540>>, <<3542, 3542>>,
     <<3633, 3633>>, <<3636, 3642>>, <<3654, 3662>>, <<3761, 3761>>,
     <<3764, 3772>>, <<3782, 3782>>, <<3784, 3790>>, <<3864, 3865>>,
     <<3893, 3893>>, <<3895, 3895>>, <<3897, 3897>>, <<3953, 3966>>,
     <<3968, 3972>>, <<3974, 3975>>, <<3981, 3991>>, <<3993, 4028>>,
     <<4038, 4038>>, <<4141, 4144>>, <<4146, 4151>>, <<4153, 4154>>,
     <<4157, 4158>>, <<4184, 4185>>, <<4190, 4192>>, <<4209, 4212>>,
     <<4226, 4226>>, <<4229, 4230>>, <<4237, 4237>>, <<4253, 4253>>,
     <<4348, 4348>>, <<4957, 4959>>, <<5906, 5908>>, <<5938, 5939>>,
     <<5970, 5971>>, <<6002, 6003>>, <<6068, 6069>>, <<6071, 6077>>,
     <<6086, 6086>>, <<6089, 6099>>, <<6103, 6103>>, <<6109, 6109>>,
     <<6155, 6159>>, <<6211, 6211>>, <<6277, 6278>>, <<6313, 6313>>,
     <<6432, 6434>>, <<6439, 6440>>, <<6450, 6450>>, <<6457, 6459>>,
     <<6679, 6680>>, <<6683, 6683>>, <<6742, 6742>>, <<6744, 6750>>,
     <<6752, 6752>>, <<6754, 6754>>, <<6757, 6764>>, <<6771, 6780>>,
     <<6783, 6783>>, <<6823, 6823>>, <<6832, 6877>>, <<6880, 6891>>,
     <<6912, 6915>>, <<6964, 6964>>, <<6966, 6970>>, <<6972, 6972>>,
     <<6978, 6978>>, <<7019, 7027>>, <<7040, 7041>>, <<7074, 7077>>,
     <<7080, 7081>>, <<7083, 7085>>, <<7142, 7142>>, <<7144, 7145>>,
     <<7149, 7149>>, <<7151, 7153>>, <<7212, 7219>>, <<7222, 7223>>,
     <<7288, 7293>>, <<7376, 7378>>, <<7380, 7392>>, <<7394, 7400>>,
     <<7405, 7405>>, <<7412, 7412>>, <<7416, 7417>>, <<7468, 7530>>,
     <<7544, 7544>>, <<7579, 7679>>, <<8125, 8125>>, <<8127, 8129>>,
     <<8141, 8143>>, <<8157, 8159>>, <<8173, 8175>>, <<8189, 8190>>,
     <<8203, 8207>>, <<8216, 8217>>, <<8228, 8228>>, <<8231, 8231>>,
     <<8234, 8238>>, <<8288, 8292>>, <<8294, 8303>>, <<8305, 8305>>,
     <<8319, 8319>>, <<8336, 8348>>, <<8400, 8432>>, <<11388, 11389>>,
     <<11503, 11505>>, <<11631, 11631>>, <<11647, 11647>>,
     <<11744, 11775>>, <<11823, 11823>>, <<12293, 12293>>,
     <<12330, 12333>>, <<12337, 12341>>, <<12347, 12347>>,
     <<12441, 12446>>, <<12540, 12542>>, <<40981, 40981>>,
     <<42232, 42237>>, <<42508, 42508>>, <<42607, 42610>>,
     <<42612, 42621>>, <<42623, 42623>>, <<42652, 42655>>,
     <<42736, 42737>>, <<42752, 42785>>, <<42864, 42864>>,
     <<42888, 42890>>, <<42993, 42996>>, <<43000, 43001>>,
     <<43010, 43010>>, <<43014, 43014>>, <<43019, 43019>>,
     <<43045, 43046>>, <<43052, 43052>>, <<43204, 43205>>,
     <<43232, 43249>>, <<43263, 43263>>, <<43302, 43309>>,
     <<43335, 43345>>, <<43392, 43394>>, <<43443, 43443>>,
     <<43446, 43449>>, <<43452, 43453>>, <<43471, 43471>>,
     <<43493, 43494>>, <<43561, 43566>>, <<43569, 43570>>,
     <<43573, 43574>>, <<43587, 43587>>, <<43596, 43596>>,
     <<43632, 43632>>, <<43644, 43644>>, <<43696, 43696>>,
     <<43698, 43700>>, <<43703, 43704>>, <<43710, 43711>>,
     <<43713, 43713>>, <<43741, 43741>>, <<43756, 43757>>,
     <<43763, 43764>>, <<43766, 43766>>, <<43867, 43871>>,
     <<43881, 43883>>, <<44005, 44005>>, <<44008, 44008>>,
     <<44013, 44013>>, <<64286, 64286>>, <<64434, 64450>>,
     <<65024, 65039>>, <<65043, 65043>>, <<65056, 65071>>,
     <<65106, 65106>>, <<65109, 65109>>, <<65279, 65279>>,
     <<65287, 65287>>, <<65294, 65294>>, <<65306, 65306>>,
     <<65342, 65342>>, <<65344, 65344>>, <<65392, 65392>>,
     <<65438, 65439>>, <<65507, 65507>>, <<65529, 65531>>,
     <<66045, 66045>>, <<66272, 66272>>, <<66422, 66426>>,
     <<67456, 67461>>, <<67463, 67504>>, <<67506, 67514>>,
     <<68097, 68099>>, <<68101, 68102>>, <<68108, 68111>>,
     <<68152, 68154>>, <<68159, 68159>>, <<68325, 68326>>,
     <<68900, 68903>>, <<68942, 68942>>, <<68969, 68973>>,
     <<68975, 68975>>, <<69291, 69292>>, <<69317, 69317>>,
     <<69370, 69375>>, <<69446, 69456>>, <<69506, 69509>>,
     <<69633, 69633>>, <<69688, 69702>>, <<69744, 69744>>,
     <<69747, 69748>>, <<69759, 69761>>, <<69811, 69814>>,
     <<69817, 69818>>, <<69821, 69821>>, <<69826, 69826>>,
     <<69837, 69837>>, <<69888, 69890>>, <<69927, 69931>>,
     <<69933, 69940>>, <<70003, 70003>>, <<70016, 70017>>,
     <<70070, 70078>>, <<70089, 70092>>, <<70095, 70095>>,
     <<70191, 70193>>, <<70196, 70196>>, <<70198, 70199>>,
     <<70206, 70206>>, <<70209, 70209>>, <<70367, 70367>>,
     <<70371, 70378>>, <<70400, 70401>>, <<70459, 70460>>,
     <<70464, 70464>>, <<70502, 70508>>, <<70512, 70516>>,
     <<70587, 70592>>, <<70606, 70606>>, <<70608, 70608>>,
     <<70610, 70610>>, <<70625, 70626>>, <<70712, 70719>>,
     <<70722, 70724>>, <<70726, 70726>>, <<70750, 70750>>,
     <<70835, 70840>>, <<70842, 70842>>, <<70847, 70848>>,
     <<70850, 70851>>, <<71090, 71093>>, <<71100, 71101>>,
     <<71103, 71104>>, <<71132, 71133>>, <<71219, 71226>>,
     <<71229, 71229>>, <<71231, 71232>>, <<71339, 71339>>,
     <<71341, 71341>>, <<71344, 71349>>, <<71351, 71351>>,
     <<71453, 71453>>, <<71455, 71455>>, <<71458, 71461>>,
     <<71463, 71467>>, <<71727, 71735>>, <<71737, 71738>>,
     <<71995, 71996>>, <<71998, 71998>>, <<72003, 72003>>,
     <<72148, 72151>>, <<72154, 72155>>, <<72160, 72160>>,
     <<72193, 72202>>, <<72243, 72248>>, <<72251, 72254>>,
     <<72263, 72263>>, <<72273, 72278>>, <<72281, 72283>>,
     <<72330, 72342>>, <<72344, 72345>>, <<72544, 72544>>,
     <<72546, 72548>>, <<72550, 72550>>, <<72752, 72758>>,
     <<72760, 72765>>, <<72767, 72767>>, <<72850, 72871>>,
     <<72874, 72880>>, <<72882, 72883>>, <<72885, 72886>>,
     <<73009, 73014>>, <<73018, 73018>>, <<73020, 73021>>,
     <<73023, 73029>>, <<73031, 73031>>, <<73104, 73105>>,
     <<73109, 73109>>, <<73111, 73111>>, <<73177, 73177>>,
     <<73459, 73460>>, <<73472, 73473>>, <<73526, 73530>>,
     <<73536, 73536>>, <<73538, 73538>>, <<73562, 73562>>,
     <<78896, 78912>>, <<78919, 78933>>, <<90398, 90409>>,
     <<90413, 90415>>, <<92912, 92916>>, <<92976, 92982>>,
     <<92992, 92995>>, <<93504, 93506>>, <<93547, 93548>>,
     <<94031, 94031>>, <<94095, 94111>>, <<94176, 94177>>,
     <<94179, 94180>>, <<94194, 94195>>, <<110576, 110579>>,
     <<110581, 110587>>, <<110589, 110590>>, <<113821, 113822>>,
     <<113824, 113827>>, <<118528, 118573>>, <<118576, 118598>>,
     <<119143, 119145>>, <<119155, 119170>>, <<119173, 119179>>,
     <<119210, 119213>>, <<119362, 119364>>, <<121344, 121398>>,
     <<121403, 121452>>, <<121461, 121461>>, <<121476, 121476>>,
     <<121499, 121503>>, <<121505, 121519>>, <<122880, 122886>>,
     <<122888, 122904>>, <<122907, 122913>>, <<122915, 122916>>,
     <<122918, 122922>>, <<122928, 122989>>, <<123023, 123023>>,
     <<123184, 123197>>, <<123566, 123566>>, <<123628, 123631>>,
     <<124139, 124143>>, <<124398, 124399>>, <<124643, 124643>>,
     <<124646, 124646>>, <<124654, 124655>>, <<124661, 124661>>,
     <<124671, 124671>>, <<125136, 125142>>, <<125252, 125259>>,
     <<127995, 127999>>, <<917505, 917505>>, <<917536, 917631>>,
     <<917760, 917999>>
    }

\* core::unicode::Case_Ignorable
CaseIgnorable == UNION {r[1]..r[2] : r \in CaseIgnorableRanges}

\* the capital sigma and its two lower cases
CapitalSigma == 931

SmallSigma == 963

FinalSigma == 962

\* s from its last character to its first
Reverse(s) == [i \in 1..Len(s) |-> s[Len(s) + 1 - i]]

\* case_ignorable_then_cased: the first character of s that is not
\* Case_Ignorable is there and is Cased
CaseIgnorableThenCased(s) ==
    \E i \in 1..Len(s) :
        /\ s[i] \in Cased
        /\ s[i] \notin CaseIgnorable
        /\ \A j \in 1..(i - 1) : s[j] \in CaseIgnorable

\* map_uppercase_sigma: the capital sigma at index i of s is a final sigma
\* when a cased letter comes before it and none comes after it, characters
\* that are Case_Ignorable skipped
MapUppercaseSigma(s, i) ==
    IF /\ CaseIgnorableThenCased(Reverse(SubSeq(s, 1, i - 1)))
       /\ ~CaseIgnorableThenCased(SubSeq(s, i + 1, Len(s)))
    THEN FinalSigma
    ELSE SmallSigma

\* str::to_lowercase from the character at index i on
RECURSIVE ToLowercaseFrom(_, _)
ToLowercaseFrom(s, i) ==
    IF i > Len(s)
    THEN << >>
    ELSE (IF s[i] = CapitalSigma
          THEN <<MapUppercaseSigma(s, i)>>
          ELSE LowercaseChar(s[i])) \o ToLowercaseFrom(s, i + 1)

\* str::to_lowercase
ToLowercase(s) == ToLowercaseFrom(s, 1)

\* str::contains(&str)
Contains(text, pattern) ==
    \E i \in 0..(Len(text) - Len(pattern)) :
        SubSeq(text, i + 1, i + Len(pattern)) = pattern

---------------------------------------------------------------------------
(* Posts *)

\* A FirehosePost is a record [did, rkey, text] of strings; its timestamp,
\* embed and facets are only shown in the row.  did and rkey are kept as a
\* String keeps them, as the sequence of their UTF-8 bytes; text is the
\* sequence of its characters.  The field nth is history: the number of the
\* post in the order of tx.send.

\* "did:plc:abcde", a DID of 13 bytes
DidPlc == <<100, 105, 100, 58, 112, 108, 99, 58, 97, 98, 99, 100, 101>>

\* "did:web:a.io", a DID of 12 bytes
DidWeb == <<100, 105, 100, 58, 119, 101, 98, 58, 97, 46, 105, 111>>

\* "did:a:b", a DID of 7 bytes
DidMin == <<100, 105, 100, 58, 97, 58, 98>>

\* "3kabcd", a record key of 6 bytes
RkeyTid == <<51, 107, 97, 98, 99, 100>>

\* "3kabcde" and e acute (U+00E9), which is the bytes C3 A9: the bytes at
\* index 7 and 8 of the record key
RkeyWide == <<51, 107, 97, 98, 99, 100, 101, 195, 169>>

\* the event of a post record as the receiver of jetstream_oxide gives it:
\* info.did, commit.info.rkey and post.text
Event(text) == [did |-> DidPlc, rkey |-> RkeyTid, text |-> text]

\* the event of a post record whose record key cannot be cut at byte 8
WideEvent(text) == [did |-> DidPlc, rkey |-> RkeyWide, text |-> text]

\* the same record key under a DID of 12 bytes
WebEvent(text) == [did |-> DidWeb, rkey |-> RkeyWide, text |-> text]

\* the event of a post record with a DID of 7 bytes and the record key "3"
MinEvent(text) == [did |-> DidMin, rkey |-> <<51>>, text |-> text]

\* str::len: the number of bytes of s
StrLen(s) == Len(s)

\* str::is_char_boundary(n): n is 0, or the length of s, or the index of a
\* byte that is not a continuation byte (0x80..0xBF)
IsCharBoundary(s, n) ==
    \/ n = 0
    \/ n = Len(s)
    \/ n < Len(s) /\ (s[n + 1] < 128 \/ s[n + 1] >= 192)

\* &s[..n] where n is a character boundary of s
SliceTo(s, n) == SubSeq(s, 1, n)

\* usize::min
Min(a, b) == IF a < b THEN a ELSE b

\* what a call gives that does not return: the thread panics
Panic == "panic"

\* add_message_to_list, `let did_short = ..`: with a DID of more than 12
\* bytes, &post.did[..8] or &post.rkey[..8.min(post.rkey.len())] is cut
\* inside a character, and the slice panics
DidShortPanics(post) ==
    /\ StrLen(post.did) > 12
    /\ \/ ~IsCharBoundary(post.did, 8)
       \/ ~IsCharBoundary(post.rkey, Min(8, StrLen(post.rkey)))

\* add_message_to_list, `let did_short = ..`: the label of the row
DidShort(post) ==
    IF DidShortPanics(post)
    THEN Panic
    ELSE IF StrLen(post.did) > 12
    THEN SliceTo(post.did, 8) \o <<46, 46, 46>>
             \o SliceTo(post.rkey, Min(8, StrLen(post.rkey)))
    ELSE post.rkey

---------------------------------------------------------------------------
(* Lists and filters *)

\* add_message_to_list without the loop that removes the rows past the 100th
AddMessageToListUnbounded(list, post) ==
    IF DidShortPanics(post) THEN Panic ELSE <<post>> \o list

\* add_message_to_list: the row is built, which panics when its label
\* cannot be cut, then list.prepend(&row), then every child counted past
\* the 100th is removed
AddMessageToList(list, post) ==
    IF DidShortPanics(post)
    THEN Panic
    ELSE LET rows == <<post>> \o list
             kept == IF Len(rows) > MaxMessages THEN MaxMessages
                     ELSE Len(rows)
         IN  SubSeq(rows, 1, kept)

\* main_keyword.is_empty() || post.text.to_lowercase().contains(..)
MainAccepts(keyword, post) ==
    \/ keyword = EmptyString
    \/ Contains(ToLowercase(post.text), ToLowercase(keyword))

\* !keyword.is_empty() && post.text.to_lowercase().contains(..)
SplitAccepts(keyword, post) ==
    /\ keyword # EmptyString
    /\ Contains(ToLowercase(post.text), ToLowercase(keyword))

\* FirehoseControl::broadcast_message, `for split in splits.iter()` from
\* the split at index i on; the first split that accepts a post whose row
\* cannot be built panics
RECURSIVE BroadcastFrom(_, _, _)
BroadcastFrom(panes, post, i) ==
    IF i > Len(panes)
    THEN panes
    ELSE IF ~SplitAccepts(panes[i].filter_keyword, post)
    THEN BroadcastFrom(panes, post, i + 1)
    ELSE IF DidShortPanics(post)
    THEN Panic
    ELSE BroadcastFrom([panes EXCEPT ![i].list = AddMessageToList(@, post)],
                       post, i + 1)

\* broadcast_message emptying the keyword of every split that takes the post
BroadcastMessageOneShot(panes, post) ==
    [i \in 1..Len(panes) |->
        IF SplitAccepts(panes[i].filter_keyword, post)
        THEN [BroadcastFrom(panes, post, 1)[i]
                  EXCEPT !.filter_keyword = EmptyString]
        ELSE panes[i]]

\* FirehoseControl::broadcast_message
BroadcastMessage(panes, post) == BroadcastFrom(panes, post, 1)

\* broadcast_message panics: a split accepts a post whose row cannot be
\* built
BroadcastPanics(panes, post) ==
    /\ DidShortPanics(post)
    /\ \E i \in 1..Len(panes) : SplitAccepts(panes[i].filter_keyword, post)

\* one iteration of `for post in buffer.iter()`: the main list, then the
\* splits; `processed` are the posts the loop has reached, `panicked` says
\* that the iteration of the last of them panicked
ProcessPost(view, keyword, post) ==
    IF MainAccepts(keyword, post) /\ DidShortPanics(post)
    THEN [view EXCEPT !.processed = Append(@, post), !.panicked = TRUE]
    ELSE LET main == IF MainAccepts(keyword, post)
                     THEN AddMessageToList(view.main_list, post)
                     ELSE view.main_list
         IN  IF BroadcastPanics(view.splits, post)
             THEN [main_list |-> main,
                   splits    |-> view.splits,
                   processed |-> Append(view.processed, post),
                   panicked  |-> TRUE]
             ELSE [main_list |-> main,
                   splits    |-> BroadcastMessage(view.splits, post),
                   processed |-> Append(view.processed, post),
                   panicked  |-> FALSE]

\* the iterations of `for post in buffer.iter()` up to the post at index
\* `last`, or up to the iteration that panics; the iterator stands after
\* the posts reached so far.  The posts are processed one after the other in
\* index order; the range is halved only to keep the evaluation shallow.
RECURSIVE ProcessUpTo(_, _, _, _)
ProcessUpTo(view, keyword, buffer, last) ==
    LET done == Len(view.processed)
        mid == (done + last) \div 2
    IN  IF view.panicked \/ done >= last
        THEN view
        ELSE IF done + 1 = last
        THEN ProcessPost(view, keyword, buffer[last])
        ELSE ProcessUpTo(ProcessUpTo(view, keyword, buffer, mid),
                         keyword, buffer, last)

\* `for post in buffer.iter() { .. }`, first post first
ProcessBuffer(view, keyword, buffer) ==
    ProcessUpTo(view, keyword, buffer, Len(buffer))

\* the state of the lists before the loop of the timer
View == [main_list |-> main_list, splits |-> splits,
         processed |-> << >>, panicked |-> FALSE]

\* *scroll_paused_for_timer.borrow() > Instant::now()
IsPaused == scroll_paused_until > now

\* a scroll during a pause ending the pause at once
PauseDeadlineToggle ==
    IF scroll_paused_until > now THEN now ELSE now + Cooldown

\* Instant::now() + Duration::from_secs(2)
PauseDeadline == now + Cooldown

\* splits.iter().position(|s| s.container == split_box_clone)
Position(panes, container) ==
    LET found == {i \in 1..Len(panes) : panes[i].container = container}
    IN  IF found = {} THEN 0 ELSE CHOOSE i \in found : \A j \in found : i <= j

\* Vec::remove(pos)
RemoveAt(panes, pos) ==
    [i \in 1..(Len(panes) - 1) |-> IF i < pos THEN panes[i] ELSE panes[i + 1]]

\* main_pane.container (the splits' containers are numbered from 1)
MainBox == 0

\* rebuild_layout without the main pane
RebuildLayoutSplitsOnly(panes) ==
    [i \in 1..Len(panes) |-> panes[i].container]

\* FirehoseControl::rebuild_layout: the main pane's container, then the
\* container of every split, nested in paned widgets in this order
RebuildLayout(panes) ==
    <<MainBox>> \o [i \in 1..Len(panes) |-> panes[i].container]

\* FirehoseControl::rebuild_layout: with splits, the Paned widgets are built
\* horizontal when root_container.width() > root_container.height(),
\* vertical otherwise; without splits no Paned is built
RebuildOrientation(panes) == panes # << >> /\ root_shape = "wide"

---------------------------------------------------------------------------
(* State after create_firehose_view *)

\* create_firehose_view: scroll_paused_until is Instant::now(), the time of
\* creation; the buffer, the lists and the vector of splits are empty
Init ==
    /\ now = 0
    /\ next_tick = TickPeriod
    /\ scroll_paused_until = 0
    /\ chan = << >>
    /\ message_buffer = << >>
    /\ main_filter_keyword = EmptyString
    /\ main_list = << >>
    /\ splits = << >>
    /\ widgets = 0
    /\ forwarded = << >>
    /\ dispatched = << >>
    /\ main_since = 0
    /\ held = << >>
    /\ released = << >>
    /\ layout = <<MainBox>>
    /\ signal_from = -1
    /\ context_alive = TRUE
    /\ closed = {}
    /\ bridge = "connecting"
    /\ skipped = 0
    /\ stderr = << >>
    /\ stopped_at = -1
    /\ root_shape = "unallocated"
    /\ horizontal = FALSE
    /\ tick_callbacks = 0
    /\ process = "running"

---------------------------------------------------------------------------
(* Actions *)

\* the lines of eprintln! in start_jetstream and in the closure of its thread
LineConnected == "Connected to Bluesky Jetstream!"

\* what `{}` prints of an error made outside this program; the model keeps
\* of its text only the call that made it
ErrorOf(call) == "<error of " \o call \o ">"

\* what `{}` prints of the error start_jetstream returned: the error of
\* "app.bsky.feed.post".parse() under "Failed to parse NSID: ", the error of
\* JetstreamConnector::new(config) or the error of jetstream.connect()
ConnectErrors ==
    {"Failed to parse NSID: " \o ErrorOf("parse"),
     ErrorOf("JetstreamConnector::new"),
     ErrorOf("connect")}

\* eprintln!("Jetstream error: {}", e)
LineError(e) == "Jetstream error: " \o e

\* start_jetstream: JetstreamConnector::new(config)? and
\* jetstream.connect().await? succeed; eprintln!("Connected ...")
JetstreamConnect ==
    /\ process = "running"
    /\ bridge = "connecting"
    /\ bridge' = "streaming"
    /\ stderr' = Append(stderr, LineConnected)
    /\ UNCHANGED <<now, next_tick, scroll_paused_until, chan,
                   message_buffer, main_filter_keyword, main_list, splits,
                   widgets, forwarded, dispatched, main_since, held,
                   released, layout, root_shape, horizontal, tick_callbacks, signal_from, context_alive,
                   closed, skipped, stopped_at>>
    /\ process' = process

\* the thread of start_jetstream: tokio::runtime::Runtime::new() is an Err
\* and unwrap() panics.  The panic ends the thread only: start_jetstream is
\* not called, tx_clone is dropped, and the message of the panic is not a
\* line of eprintln!
JetstreamRuntimeFails ==
    /\ process = "running"
    /\ bridge = "connecting"
    /\ bridge' = "panicked"
    /\ stopped_at' = Len(dispatched)
    /\ UNCHANGED <<now, next_tick, scroll_paused_until, chan,
                   message_buffer, main_filter_keyword, main_list, splits,
                   widgets, forwarded, dispatched, main_since, held,
                   released, layout, root_shape, horizontal, tick_callbacks,
                   signal_from, context_alive, closed, skipped, stderr,
                   process>>

\* start_jetstream: one of the three `?` returns the error e; the thread
\* prints "Jetstream error: " and e
JetstreamConnectFails ==
    /\ process = "running"
    /\ bridge = "connecting"
    /\ bridge' = "err"
    /\ \E e \in ConnectErrors : stderr' = Append(stderr, LineError(e))
    /\ stopped_at' = Len(dispatched)
    /\ UNCHANGED <<now, next_tick, scroll_paused_until, chan,
                   message_buffer, main_filter_keyword, main_list, splits,
                   widgets, forwarded, dispatched, main_since, held,
                   released, layout, root_shape, horizontal, tick_callbacks, signal_from, context_alive,
                   closed, skipped>>
    /\ process' = process

\* start_jetstream: the loop receives an event that is not the Create commit
\* of a post record (the `if let`s do not match, or `_ => {}`): nothing is
\* sent, nothing is printed, the loop receives the next event
JetstreamSkip ==
    /\ process = "running"
    /\ bridge = "streaming"
    /\ skipped' = skipped + 1
    /\ UNCHANGED <<now, next_tick, scroll_paused_until, chan,
                   message_buffer, main_filter_keyword, main_list, splits,
                   widgets, forwarded, dispatched, main_since, held,
                   released, layout, root_shape, horizontal, tick_callbacks, signal_from, context_alive,
                   closed, bridge, stderr, stopped_at>>
    /\ process' = process

\* start_jetstream: receiver.recv_async().await is an Err (the Jetstream
\* receiver has no more events), the `while let` ends and the function
\* returns Ok(())
JetstreamEnd ==
    /\ process = "running"
    /\ bridge = "streaming"
    /\ bridge' = "ok"
    /\ stopped_at' = Len(dispatched)
    /\ UNCHANGED <<now, next_tick, scroll_paused_until, chan,
                   message_buffer, main_filter_keyword, main_list, splits,
                   widgets, forwarded, dispatched, main_since, held,
                   released, layout, root_shape, horizontal, tick_callbacks, signal_from, context_alive,
                   closed, skipped, stderr>>
    /\ process' = process

\* tx.send on a channel of capacity 1 that waits while the channel is full
JetstreamPostBounded(event) ==
    LET post == [nth |-> Len(forwarded) + 1, did |-> event.did,
                 rkey |-> event.rkey, text |-> event.text]
    IN  /\ process = "running"
        /\ bridge = "streaming"
        /\ Len(chan) < 1
        /\ IF context_alive
           THEN /\ chan' = Append(chan, post)
                /\ forwarded' = Append(forwarded, post)
                /\ bridge' = bridge
           ELSE /\ bridge' = "ok"
                /\ UNCHANGED <<chan, forwarded>>
        /\ UNCHANGED <<now, next_tick, scroll_paused_until, message_buffer,
                       main_filter_keyword, main_list, splits, widgets,
                       dispatched, main_since, held, released, layout, root_shape, horizontal, tick_callbacks,
                       signal_from, context_alive,
                       closed,
                       skipped, stderr>>
        /\ stopped_at' = IF context_alive THEN stopped_at ELSE Len(dispatched)
        /\ process' = process

\* tx.send putting the post at the head of the channel
JetstreamPostFront(event) ==
    LET post == [nth |-> Len(forwarded) + 1, did |-> event.did,
                 rkey |-> event.rkey, text |-> event.text]
    IN  /\ process = "running"
        /\ bridge = "streaming"
        /\ IF context_alive
           THEN /\ chan' = <<post>> \o chan
                /\ forwarded' = Append(forwarded, post)
                /\ bridge' = bridge
           ELSE /\ bridge' = "ok"
                /\ UNCHANGED <<chan, forwarded>>
        /\ UNCHANGED <<now, next_tick, scroll_paused_until, message_buffer,
                       main_filter_keyword, main_list, splits, widgets,
                       dispatched, main_since, held, released, layout, root_shape, horizontal, tick_callbacks,
                       signal_from, context_alive,
                       closed,
                       skipped, stderr>>
        /\ stopped_at' = IF context_alive THEN stopped_at ELSE Len(dispatched)
        /\ process' = process

\* the failed send returned as the error of start_jetstream
JetstreamPostReportsErr(event) ==
    LET post == [nth |-> Len(forwarded) + 1, did |-> event.did,
                 rkey |-> event.rkey, text |-> event.text]
    IN  /\ process = "running"
        /\ bridge = "streaming"
        /\ IF context_alive
           THEN /\ chan' = Append(chan, post)
                /\ forwarded' = Append(forwarded, post)
                /\ bridge' = bridge
           ELSE /\ bridge' = "err"
                /\ UNCHANGED <<chan, forwarded>>
        /\ UNCHANGED <<now, next_tick, scroll_paused_until, message_buffer,
                       main_filter_keyword, main_list, splits, widgets,
                       dispatched, main_since, held, released, layout, root_shape, horizontal, tick_callbacks,
                       signal_from, context_alive,
                       closed,
                       skipped, stderr>>
        /\ stopped_at' = IF context_alive THEN stopped_at ELSE Len(dispatched)
        /\ process' = process

\* start_jetstream: a post record is decoded and tx.send(firehose_post);
\* with the receiver gone the send is an Err, the loop breaks and the
\* function returns Ok(())
JetstreamPost(event) ==
    LET post == [nth |-> Len(forwarded) + 1, did |-> event.did,
                 rkey |-> event.rkey, text |-> event.text]
    IN  /\ process = "running"
        /\ bridge = "streaming"
        /\ IF context_alive
           THEN /\ chan' = Append(chan, post)
                /\ forwarded' = Append(forwarded, post)
                /\ bridge' = bridge
           ELSE /\ bridge' = "ok"
                /\ UNCHANGED <<chan, forwarded>>
        /\ UNCHANGED <<now, next_tick, scroll_paused_until, message_buffer,
                       main_filter_keyword, main_list, splits, widgets,
                       dispatched, main_since, held, released, layout, root_shape, horizontal, tick_callbacks,
                       signal_from, context_alive,
                       closed,
                       skipped, stderr>>
        /\ stopped_at' = IF context_alive THEN stopped_at ELSE Len(dispatched)
        /\ process' = process

\* the receiver dropping the post when the buffer holds MaxMessages posts
IntakeBounded ==
    /\ process = "running"
    /\ context_alive
    /\ chan # << >>
    /\ message_buffer' = IF Len(message_buffer) < MaxMessages
                         THEN Append(message_buffer, Head(chan))
                         ELSE message_buffer
    /\ chan' = Tail(chan)
    /\ held' = IF IsPaused THEN Append(held, Head(chan)) ELSE held
    /\ UNCHANGED <<now, next_tick, scroll_paused_until, main_filter_keyword,
                   main_list, splits, widgets, forwarded, dispatched,
                   main_since, released, layout, root_shape, horizontal, tick_callbacks, signal_from, context_alive,
                   bridge, closed,
                   skipped, stderr, stopped_at>>
    /\ process' = process

\* the receiver inserting at the front of the buffer
IntakeFront ==
    /\ process = "running"
    /\ context_alive
    /\ chan # << >>
    /\ message_buffer' = <<Head(chan)>> \o message_buffer
    /\ chan' = Tail(chan)
    /\ held' = IF IsPaused THEN Append(held, Head(chan)) ELSE held
    /\ UNCHANGED <<now, next_tick, scroll_paused_until, main_filter_keyword,
                   main_list, splits, widgets, forwarded, dispatched,
                   main_since, released, layout, root_shape, horizontal, tick_callbacks, signal_from, context_alive,
                   bridge, closed,
                   skipped, stderr, stopped_at>>
    /\ process' = process

\* the receiver waiting for the pause to end before it takes a post
IntakeWaitsForPause ==
    /\ process = "running"
    /\ context_alive
    /\ ~IsPaused
    /\ chan # << >>
    /\ message_buffer' = Append(message_buffer, Head(chan))
    /\ chan' = Tail(chan)
    /\ held' = held
    /\ UNCHANGED <<now, next_tick, scroll_paused_until, main_filter_keyword,
                   main_list, splits, widgets, forwarded, dispatched,
                   main_since, released, layout, root_shape, horizontal, tick_callbacks, signal_from, context_alive,
                   bridge, closed,
                   skipped, stderr, stopped_at>>
    /\ process' = process

\* a receiver that keeps only the posts the main pane accepts on arrival
IntakeFiltering ==
    /\ process = "running"
    /\ context_alive
    /\ chan # << >>
    /\ message_buffer' = IF MainAccepts(main_filter_keyword, Head(chan))
                         THEN Append(message_buffer, Head(chan))
                         ELSE message_buffer
    /\ chan' = Tail(chan)
    /\ held' = IF IsPaused THEN Append(held, Head(chan)) ELSE held
    /\ UNCHANGED <<now, next_tick, scroll_paused_until, main_filter_keyword,
                   main_list, splits, widgets, forwarded, dispatched,
                   main_since, released, layout, root_shape, horizontal,
                   tick_callbacks, signal_from, context_alive, bridge,
                   closed, skipped, stderr, stopped_at, process>>

\* while let Ok(post) = rx.recv_async().await { buffer.push(post) }
Intake ==
    /\ process = "running"
    /\ context_alive
    /\ chan # << >>
    /\ message_buffer' = Append(message_buffer, Head(chan))
    /\ chan' = Tail(chan)
    /\ held' = IF IsPaused THEN Append(held, Head(chan)) ELSE held
    /\ UNCHANGED <<now, next_tick, scroll_paused_until, main_filter_keyword,
                   main_list, splits, widgets, forwarded, dispatched,
                   main_since, released, layout, root_shape, horizontal, tick_callbacks, signal_from, context_alive,
                   bridge, closed,
                   skipped, stderr, stopped_at>>
    /\ process' = process

\* a timer run without posts to process moving the deadline to the present
TickIdleResets ==
    /\ process = "running"
    /\ context_alive
    /\ now >= next_tick
    /\ IF ~IsPaused /\ message_buffer # << >>
       THEN LET view == ProcessBuffer(View, main_filter_keyword,
                                      message_buffer)
            IN  /\ main_list' = view.main_list
                /\ splits' = view.splits
                /\ dispatched' = dispatched \o view.processed
                /\ scroll_paused_until' = scroll_paused_until
                /\ IF view.panicked
                   THEN /\ process' = "aborted"
                        /\ UNCHANGED <<message_buffer, released, held,
                                       next_tick>>
                   ELSE /\ message_buffer' = << >>
                        /\ released' = held
                        /\ held' = << >>
                        /\ next_tick' = now + TickPeriod
                        /\ process' = process
       ELSE /\ next_tick' = now + TickPeriod
            /\ process' = process
            /\ scroll_paused_until' = IF IsPaused THEN scroll_paused_until
                                      ELSE now
            /\ UNCHANGED <<main_list, splits, dispatched, message_buffer,
                           released, held>>
    /\ UNCHANGED <<now, chan, main_filter_keyword, widgets, forwarded,
                   main_since, layout, root_shape, horizontal,
                   tick_callbacks, signal_from, context_alive, bridge,
                   closed, skipped, stderr, stopped_at>>

\* the timer running its loop without looking at the pause
TickUngated ==
    /\ process = "running"
    /\ context_alive
    /\ now >= next_tick
    /\ IF message_buffer # << >>
       THEN LET view == ProcessBuffer(View, main_filter_keyword,
                                      message_buffer)
            IN  /\ main_list' = view.main_list
                /\ splits' = view.splits
                /\ dispatched' = dispatched \o view.processed
                /\ scroll_paused_until' = scroll_paused_until
                /\ IF view.panicked
                   THEN /\ process' = "aborted"
                        /\ UNCHANGED <<message_buffer, released, held,
                                       next_tick>>
                   ELSE /\ message_buffer' = << >>
                        /\ released' = held
                        /\ held' = << >>
                        /\ next_tick' = now + TickPeriod
                        /\ process' = process
       ELSE /\ next_tick' = now + TickPeriod
            /\ process' = process
            /\ UNCHANGED <<main_list, splits, dispatched, message_buffer,
                           released, held, scroll_paused_until>>
    /\ UNCHANGED <<now, chan, main_filter_keyword, widgets, forwarded,
                   main_since, layout, root_shape, horizontal,
                   tick_callbacks, signal_from, context_alive, bridge,
                   closed, skipped, stderr, stopped_at>>

\* a timer run that processes the first post of the buffer only
TickOneByOne ==
    /\ process = "running"
    /\ context_alive
    /\ now >= next_tick
    /\ IF ~IsPaused /\ message_buffer # << >>
       THEN LET view == ProcessBuffer(View, main_filter_keyword,
                                      <<Head(message_buffer)>>)
            IN  /\ main_list' = view.main_list
                /\ splits' = view.splits
                /\ dispatched' = dispatched \o view.processed
                /\ scroll_paused_until' = scroll_paused_until
                /\ IF view.panicked
                   THEN /\ process' = "aborted"
                        /\ UNCHANGED <<message_buffer, released, held,
                                       next_tick>>
                   ELSE /\ message_buffer' = Tail(message_buffer)
                        /\ released' = held
                        /\ held' = << >>
                        /\ next_tick' = now + TickPeriod
                        /\ process' = process
       ELSE /\ next_tick' = now + TickPeriod
            /\ process' = process
            /\ UNCHANGED <<main_list, splits, dispatched, message_buffer,
                           released, held, scroll_paused_until>>
    /\ UNCHANGED <<now, chan, main_filter_keyword, widgets, forwarded,
                   main_since, layout, root_shape, horizontal,
                   tick_callbacks, signal_from, context_alive, bridge,
                   closed, skipped, stderr, stopped_at>>

\* the closure of glib::timeout_add_local(200 ms).  With the pause over and
\* posts in the buffer it runs `for post in buffer.iter()`, then
\* buffer.clear(); ControlFlow::Continue re-arms the source one period after
\* this dispatch.  A panic of add_message_to_list leaves the closure before
\* buffer.clear() and before ControlFlow::Continue: it unwinds into the
\* extern "C" trampoline of the source, which ends the process.
Tick ==
    /\ process = "running"
    /\ context_alive
    /\ now >= next_tick
    /\ IF ~IsPaused /\ message_buffer # << >>
       THEN LET view == ProcessBuffer(View, main_filter_keyword,
                                      message_buffer)
            IN  /\ main_list' = view.main_list
                /\ splits' = view.splits
                /\ dispatched' = dispatched \o view.processed
                /\ scroll_paused_until' = scroll_paused_until
                /\ IF view.panicked
                   THEN /\ process' = "aborted"
                        /\ UNCHANGED <<message_buffer, released, held,
                                       next_tick>>
                   ELSE /\ message_buffer' = << >>
                        /\ released' = held
                        /\ held' = << >>
                        /\ next_tick' = now + TickPeriod
                        /\ process' = process
       ELSE /\ next_tick' = now + TickPeriod
            /\ process' = process
            /\ UNCHANGED <<main_list, splits, dispatched, message_buffer,
                           released, held, scroll_paused_until>>
    /\ UNCHANGED <<now, chan, main_filter_keyword, widgets, forwarded,
                   main_since, layout, root_shape, horizontal,
                   tick_callbacks, signal_from, context_alive, bridge,
                   closed, skipped, stderr, stopped_at>>

\* the clock advances by one period; the main loop may run the timer up to
\* `late` periods after its expiration
Advance(late) ==
    /\ process = "running"
    /\ now < next_tick + late
    /\ now' = now + 1
    /\ UNCHANGED <<next_tick, scroll_paused_until, chan, message_buffer,
                   main_filter_keyword, main_list, splits, widgets,
                   forwarded, dispatched, main_since, held, released,
                   layout, root_shape, horizontal, tick_callbacks, signal_from, context_alive, bridge,
                   closed,
                   skipped, stderr, stopped_at>>
    /\ process' = process

\* a scroll handler that also throws away the posts waiting in the buffer
ScrollDropsBuffer(container) ==
    /\ process = "running"
    /\ container = MainBox \/ Position(splits, container) # 0
    /\ scroll_paused_until' = PauseDeadline
    /\ signal_from' = container
    /\ message_buffer' = << >>
    /\ held' = << >>
    /\ UNCHANGED <<now, next_tick, chan,
                   main_filter_keyword, main_list, splits, widgets,
                   forwarded, dispatched, main_since, released,
                   layout, root_shape, horizontal, tick_callbacks, context_alive, bridge, closed,
                   skipped, stderr, stopped_at>>
    /\ process' = process

\* a scroll handler that pauses only when the main pane is scrolled
ScrollOwnPane(container) ==
    /\ process = "running"
    /\ container = MainBox \/ Position(splits, container) # 0
    /\ scroll_paused_until' = IF container = MainBox THEN PauseDeadline
                               ELSE scroll_paused_until
    /\ signal_from' = container
    /\ UNCHANGED <<now, next_tick, chan, message_buffer,
                   main_filter_keyword, main_list, splits, widgets,
                   forwarded, dispatched, main_since, held, released,
                   layout, root_shape, horizontal, tick_callbacks, context_alive, bridge, closed,
                   skipped, stderr, stopped_at>>
    /\ process' = process

\* connect_value_changed of the vadjustment of the main pane or of a split
\* pane
Scroll(container) ==
    /\ process = "running"
    /\ container = MainBox \/ Position(splits, container) # 0
    /\ scroll_paused_until' = PauseDeadline
    /\ signal_from' = container
    /\ UNCHANGED <<now, next_tick, chan, message_buffer,
                   main_filter_keyword, main_list, splits, widgets,
                   forwarded, dispatched, main_since, held, released,
                   layout, root_shape, horizontal, tick_callbacks, context_alive, bridge, closed,
                   skipped, stderr, stopped_at>>
    /\ process' = process

\* add_split pushing a pane that takes over the keyword and the rows of
\* the main pane
AddSplitCopyingMain ==
    /\ process = "running"
    /\ widgets' = widgets + 1
    /\ splits' = Append(splits, [container |-> widgets + 1,
                                 filter_keyword |-> main_filter_keyword,
                                 list |-> main_list,
                                 since |-> main_since])
    /\ layout' = RebuildLayout(splits')
    /\ horizontal' = RebuildOrientation(splits')
    /\ tick_callbacks' = tick_callbacks + 1
    /\ UNCHANGED root_shape
    /\ UNCHANGED <<now, next_tick, scroll_paused_until, chan,
                   message_buffer, main_filter_keyword, main_list,
                   forwarded, dispatched, main_since, held, released,
                   signal_from, context_alive, bridge,
                   closed,
                   skipped, stderr, stopped_at>>
    /\ process' = process

\* add_split filling the new list with the rows the main pane shows
AddSplitBackfilled ==
    /\ process = "running"
    /\ widgets' = widgets + 1
    /\ splits' = Append(splits, [container |-> widgets + 1,
                                 filter_keyword |-> EmptyString,
                                 list |-> main_list,
                                 since |-> Len(dispatched)])
    /\ layout' = RebuildLayout(splits')
    /\ horizontal' = RebuildOrientation(splits')
    /\ tick_callbacks' = tick_callbacks + 1
    /\ UNCHANGED root_shape
    /\ UNCHANGED <<now, next_tick, scroll_paused_until, chan,
                   message_buffer, main_filter_keyword, main_list,
                   forwarded, dispatched, main_since, held, released,
                   signal_from, context_alive, bridge,
                   closed,
                   skipped, stderr, stopped_at>>
    /\ process' = process

\* FirehoseControl::add_split
AddSplit ==
    /\ process = "running"
    /\ widgets' = widgets + 1
    /\ splits' = Append(splits, [container |-> widgets + 1,
                                 filter_keyword |-> EmptyString,
                                 list |-> << >>,
                                 since |-> Len(dispatched)])
    /\ layout' = RebuildLayout(splits')
    /\ horizontal' = RebuildOrientation(splits')
    /\ tick_callbacks' = tick_callbacks + 1
    /\ UNCHANGED root_shape
    /\ UNCHANGED <<now, next_tick, scroll_paused_until, chan,
                   message_buffer, main_filter_keyword, main_list,
                   forwarded, dispatched, main_since, held, released,
                   signal_from, context_alive, bridge,
                   closed,
                   skipped, stderr, stopped_at>>
    /\ process' = process

\* a close button that takes the container out of the layout and leaves the
\* pane in the vector
CloseSplitKeepsPane(container) ==
    /\ process = "running"
    /\ splits' = splits
    /\ layout' = SelectSeq(layout, LAMBDA box : box # container)
    /\ UNCHANGED <<root_shape, horizontal, tick_callbacks>>
    /\ closed' = closed \cup {container}
    /\ UNCHANGED <<now, next_tick, scroll_paused_until, chan,
                   message_buffer, main_filter_keyword, main_list, widgets,
                   forwarded, dispatched, main_since, held, released,
                   signal_from, context_alive, bridge,
                   skipped, stderr, stopped_at>>
    /\ process' = process

\* close_button.connect_clicked of the split built as `container`
CloseSplit(container) ==
    LET pos == Position(splits, container)
    IN  /\ process = "running"
        /\ splits' = IF pos # 0 THEN RemoveAt(splits, pos) ELSE splits
        /\ layout' = IF pos # 0 THEN RebuildLayout(splits') ELSE layout
        /\ horizontal' = IF pos # 0 THEN RebuildOrientation(splits')
                                   ELSE horizontal
        /\ tick_callbacks' = IF pos # 0 THEN tick_callbacks + 1
                                       ELSE tick_callbacks
        /\ UNCHANGED root_shape
        /\ closed' = closed \cup {container}
        /\ UNCHANGED <<now, next_tick, scroll_paused_until, chan,
                       message_buffer, main_filter_keyword, main_list, widgets,
                       forwarded, dispatched, main_since, held, released,
                       signal_from, context_alive, bridge,
                       skipped, stderr, stopped_at>>
        /\ process' = process

\* the root container is given a size: wider than high, or not
Resize(shape) ==
    /\ process = "running"
    /\ shape \in {"wide", "tall"}
    /\ root_shape' = shape
    /\ UNCHANGED <<now, next_tick, scroll_paused_until, chan,
                   message_buffer, main_filter_keyword, main_list, splits,
                   widgets, forwarded, dispatched, main_since, held,
                   released, layout, horizontal, tick_callbacks,
                   signal_from, context_alive, bridge, closed,
                   skipped, stderr, stopped_at>>
    /\ process' = process

\* a frame runs the tick callbacks of the root container: the root has a
\* size, its first child is a Paned and the orientation of the Paned is not
\* the one the root's shape asks for; the first callback calls
\* control_clone.rebuild_layout(), which builds the Paned widgets anew, in
\* the same order, and adds one more tick callback; the callbacks that run
\* after it find the orientation right.  Every callback returns
\* ControlFlow::Continue.  A frame that finds the orientation right changes
\* nothing.
RootTick ==
    /\ process = "running"
    /\ context_alive
    /\ root_shape # "unallocated"
    /\ splits # << >>
    /\ horizontal # (root_shape = "wide")
    /\ layout' = RebuildLayout(splits)
    /\ horizontal' = RebuildOrientation(splits)
    /\ tick_callbacks' = tick_callbacks + 1
    /\ UNCHANGED <<now, next_tick, scroll_paused_until, chan,
                   message_buffer, main_filter_keyword, main_list, splits,
                   widgets, forwarded, dispatched, main_since, held,
                   released, root_shape,
                   signal_from, context_alive, bridge, closed,
                   skipped, stderr, stopped_at>>
    /\ process' = process

\* the handler keeping the rows that contain the new keyword
MainSearchChangedRefilter(keyword) ==
    /\ process = "running"
    /\ main_filter_keyword' = keyword
    /\ main_list' = SelectSeq(main_list,
                              LAMBDA post : MainAccepts(keyword, post))
    /\ main_since' = Len(dispatched)
    /\ UNCHANGED <<now, next_tick, scroll_paused_until, chan,
                   message_buffer, splits, widgets, forwarded, dispatched,
                   held, released, layout, root_shape, horizontal, tick_callbacks, signal_from, context_alive,
                   bridge, closed,
                   skipped, stderr, stopped_at>>
    /\ process' = process

\* main_search.connect_search_changed
MainSearchChanged(keyword) ==
    /\ process = "running"
    /\ main_filter_keyword' = keyword
    /\ main_list' = << >>
    /\ main_since' = Len(dispatched)
    /\ UNCHANGED <<now, next_tick, scroll_paused_until, chan,
                   message_buffer, splits, widgets, forwarded, dispatched,
                   held, released, layout, root_shape, horizontal, tick_callbacks, signal_from, context_alive,
                   bridge, closed,
                   skipped, stderr, stopped_at>>
    /\ process' = process

\* the search entry of a split setting the keyword and keeping the rows
SplitSearchChangedKeepRows(container, keyword) ==
    LET pos == Position(splits, container)
    IN  /\ process = "running"
        /\ pos # 0
        /\ splits' = [splits EXCEPT ![pos] =
                         [@ EXCEPT !.filter_keyword = keyword]]
        /\ UNCHANGED <<now, next_tick, scroll_paused_until, chan,
                       message_buffer, main_filter_keyword, main_list, widgets,
                       forwarded, dispatched, main_since, held, released,
                       layout, root_shape, horizontal, tick_callbacks, signal_from, context_alive, bridge,
                       closed,
                       skipped, stderr, stopped_at>>
        /\ process' = process

\* search_entry.connect_search_changed of the split built as `container`
SplitSearchChanged(container, keyword) ==
    LET pos == Position(splits, container)
    IN  /\ process = "running"
        /\ pos # 0
        /\ splits' = [splits EXCEPT ![pos] =
                         [@ EXCEPT !.filter_keyword = keyword,
                                   !.list = << >>,
                                   !.since = Len(dispatched)]]
        /\ UNCHANGED <<now, next_tick, scroll_paused_until, chan,
                       message_buffer, main_filter_keyword, main_list, widgets,
                       forwarded, dispatched, main_since, held, released,
                       layout, root_shape, horizontal, tick_callbacks, signal_from, context_alive, bridge,
                       closed,
                       skipped, stderr, stopped_at>>
        /\ process' = process

\* the main context is destroyed with its sources: the receiver future is
\* dropped and rx with it, the timer is removed
Teardown ==
    /\ process = "running"
    /\ context_alive
    /\ context_alive' = FALSE
    /\ UNCHANGED <<now, next_tick, scroll_paused_until, chan,
                   message_buffer, main_filter_keyword, main_list, splits,
                   widgets, forwarded, dispatched, main_since, held,
                   released, layout, root_shape, horizontal, tick_callbacks, signal_from, bridge,
                   closed,
                   skipped, stderr, stopped_at>>
    /\ process' = process

\* an end of the program that runs the timer's loop once more
ExitFlushes ==
    /\ process = "running"
    /\ process' = "exited"
    /\ LET view == ProcessBuffer(View, main_filter_keyword, message_buffer)
       IN  /\ main_list' = view.main_list
           /\ splits' = view.splits
           /\ dispatched' = dispatched \o view.processed
    /\ message_buffer' = << >>
    /\ UNCHANGED <<now, next_tick, scroll_paused_until, chan,
                   main_filter_keyword, widgets, forwarded, main_since,
                   held, released, layout, root_shape, horizontal,
                   tick_callbacks, signal_from, context_alive, bridge,
                   closed, skipped, stderr, stopped_at>>

\* main after the window was closed: app.run() has returned, no source of
\* the main context is dispatched any more, and main returns the exit
\* code, which ends the process with the thread of start_jetstream.
\* Neither the receiver future nor the timer closure runs again
Exit ==
    /\ process = "running"
    /\ process' = "exited"
    /\ UNCHANGED <<now, next_tick, scroll_paused_until, chan,
                   message_buffer, main_filter_keyword, main_list, splits,
                   widgets, forwarded, dispatched, main_since, held,
                   released, layout, root_shape, horizontal, tick_callbacks,
                   signal_from, context_alive, bridge, closed, skipped,
                   stderr, stopped_at>>

---------------------------------------------------------------------------
(* The pipeline under every schedule, within the bounds; the last post is  *)
(* about a scan, or about dogs under a record key that cannot be cut      *)

Next ==
    \/ \E text \in {TextDogs, TextScan} :
           Len(forwarded) + 1 < MaxPosts /\ JetstreamPost(Event(text))
    \/ Len(forwarded) + 1 = MaxPosts /\ JetstreamPost(Event(TextScan))
    \/ Len(forwarded) + 1 = MaxPosts /\ JetstreamPost(WideEvent(TextDogs))
    \/ JetstreamConnect
    \/ Intake
    \/ Tick
    \/ now < MaxTime /\ Advance(0)
    \/ \E c \in 0..widgets : Scroll(c)
    \/ widgets < MaxWidgets /\ AddSplit
    \/ \E c \in 1..widgets : CloseSplit(c)
    \/ \E k \in {EmptyString, KeywordCat} : MainSearchChanged(k)
    \/ \E c \in 1..widgets, k \in {EmptyString, KeywordCat} :
           SplitSearchChanged(c, k)

Spec == Init /\ [][Next]_vars

---------------------------------------------------------------------------
(* The gate over a whole pause: posts of one text, the main pane only *)

NextGate ==
    \/ Len(forwarded) < GatePosts /\ JetstreamPost(Event(TextCats))
    \/ Len(forwarded) < GatePosts /\ JetstreamPost(WideEvent(TextCats))
    \/ JetstreamConnect
    \/ Intake
    \/ Tick
    \/ now < GateTime /\ Advance(GateLate)
    \/ Scroll(0)

SpecGate == Init /\ [][NextGate]_vars

---------------------------------------------------------------------------
(* A burst of posts larger than a list: the texts come in a fixed cycle,   *)
(* every post is collected before the next is sent, the panes are set up   *)
(* before the first post                                                   *)

VolumeTexts == <<KeywordCat, TextShout>>

VolumeText == VolumeTexts[(Len(forwarded) % Len(VolumeTexts)) + 1]

NextVolume ==
    \/ /\ Len(forwarded) < VolumePosts
       /\ chan = << >>
       /\ JetstreamPost(MinEvent(VolumeText))
    \/ /\ Len(forwarded) + 1 = VolumePosts
       /\ chan = << >>
       /\ JetstreamPost(WideEvent(VolumeText))
    \/ JetstreamConnect
    \/ Intake
    \/ Tick
    \/ now < VolumeTime /\ chan = << >> /\ Advance(0)
    \/ forwarded = << >> /\ widgets < 1 /\ AddSplit
    \/ forwarded = << >> /\ SplitSearchChanged(1, KeywordCat)

SpecVolume == Init /\ [][NextVolume]_vars

---------------------------------------------------------------------------
(* One batch over several panes and keywords, no scrolling; a record key   *)
(* that cannot be cut comes with the last post, a did of 12 bytes with the *)
(* first; the keyword of a split is empty or cat                           *)

NextFanout ==
    \/ \E text \in Texts :
           Len(forwarded) < FanoutPosts /\ JetstreamPost(Event(text))
    \/ forwarded = << >> /\ JetstreamPost(Event(TextCafe))
    \/ Len(forwarded) + 1 = FanoutPosts
           /\ JetstreamPost(WideEvent(TextScan))
    \/ forwarded = << >> /\ JetstreamPost(WebEvent(TextScan))
    \/ JetstreamConnect
    \/ Intake
    \/ Tick
    \/ now < TickPeriod /\ Advance(0)
    \/ forwarded = << >> /\ widgets < FanoutWidgets /\ AddSplit
    \/ \E k \in UnicodeKeywords : forwarded = << >> /\ MainSearchChanged(k)
    \/ \E c \in 1..widgets, k \in {EmptyString, KeywordCat} :
           forwarded = << >> /\ SplitSearchChanged(c, k)

SpecFanout == Init /\ [][NextFanout]_vars

---------------------------------------------------------------------------
(* The vector of splits: panes added, filtered and closed while posts go   *)
(* through; no scrolling, the main keyword is set before the first split  *)
(* and the first post, only the first post may have a record key that      *)
(* cannot be cut                                                           *)

NextRegistry ==
    \/ \E text \in {TextDogs, TextScan} :
           Len(forwarded) < RegistryPosts /\ JetstreamPost(Event(text))
    \/ forwarded = << >> /\ JetstreamPost(WideEvent(TextDogs))
    \/ forwarded = << >> /\ widgets = 0 /\ MainSearchChanged(KeywordCat)
    \/ JetstreamConnect
    \/ Intake
    \/ Tick
    \/ now < RegistryTime /\ Advance(0)
    \/ widgets < RegistryWidgets /\ AddSplit
    \/ \E c \in 1..widgets : CloseSplit(c)
    \/ \E c \in 1..widgets, k \in {KeywordCat, KeywordDogs} :
           SplitSearchChanged(c, k)

SpecRegistry == Init /\ [][NextRegistry]_vars

---------------------------------------------------------------------------
(* The thread of start_jetstream against the main context: the connection  *)
(* may fail, the main context may go away at any time                      *)

NextBridge ==
    \/ JetstreamConnect
    \/ JetstreamConnectFails
    \/ JetstreamRuntimeFails
    \/ Len(forwarded) < BridgePosts /\ JetstreamPost(Event(TextCats))
    \/ Len(forwarded) < BridgePosts /\ JetstreamPost(WideEvent(TextCats))
    \/ skipped < BridgeSkips /\ JetstreamSkip
    \/ JetstreamEnd
    \/ Intake
    \/ Tick
    \/ now < BridgeTime /\ Advance(0)
    \/ Scroll(MainBox)
    \/ Teardown

SpecBridge == Init /\ [][NextBridge]_vars

---------------------------------------------------------------------------
(* The thread, the timer and the clones of the control: splits are added   *)
(* and closed and the root container changes its shape while the thread    *)
(* connects, sends and returns                                             *)

NextHandles ==
    \/ JetstreamConnect
    \/ JetstreamConnectFails
    \/ JetstreamRuntimeFails
    \/ Len(forwarded) < HandlePosts /\ JetstreamPost(Event(TextCats))
    \/ Len(forwarded) < HandlePosts /\ JetstreamPost(WideEvent(TextCats))
    \/ JetstreamEnd
    \/ Intake
    \/ Tick
    \/ now < HandleTime /\ Advance(0)
    \/ Scroll(MainBox)
    \/ widgets < HandleWidgets /\ AddSplit
    \/ \E c \in 1..widgets : CloseSplit(c)
    \/ \E shape \in {"wide", "tall"} : Resize(shape)
    \/ tick_callbacks < HandleCallbacks /\ RootTick

SpecHandles == Init /\ [][NextHandles]_vars

---------------------------------------------------------------------------
(* The end of the program: the window may be closed at any time, with      *)
(* posts in the channel and in message_buffer and the thread in its loop   *)

NextExit ==
    \/ JetstreamConnect
    \/ Len(forwarded) < ExitPosts /\ JetstreamPost(Event(TextCats))
    \/ Len(forwarded) < ExitPosts /\ JetstreamPost(WideEvent(TextCats))
    \/ JetstreamEnd
    \/ Intake
    \/ Tick
    \/ now < ExitTime /\ Advance(0)
    \/ Scroll(MainBox)
    \/ Exit

SpecExit == Init /\ [][NextExit]_vars

---------------------------------------------------------------------------
(* The pipeline when scrolling stops: the main loop keeps running the
   receiver future and the timer; the receiver collects a post before the
   next period begins *)

\* the time by which every pause has run out
LiveHorizon == LiveScroll + Cooldown

NextLive ==
    \/ /\ Len(forwarded) < LivePosts
       /\ now < LiveHorizon
       /\ JetstreamPost(Event(TextCats))
    \/ /\ Len(forwarded) < LivePosts
       /\ now < LiveHorizon
       /\ JetstreamPost(WideEvent(TextCats))
    \/ JetstreamConnect
    \/ Intake
    \/ Tick
    \/ now < LiveHorizon /\ chan = << >> /\ Advance(0)
    \/ now <= LiveScroll /\ Scroll(MainBox)

SpecLive ==
    /\ Init /\ [][NextLive]_vars
    /\ WF_vars(Intake)
    /\ WF_vars(Tick)
    /\ WF_vars(now < LiveHorizon /\ chan = << >> /\ Advance(0))

---------------------------------------------------------------------------
(* Properties *)

\* the lists of all panes, the main pane first
AllLists == <<main_list>> \o [i \in 1..Len(splits) |-> splits[i].list]

\* C1: in every reachable state the list of every pane, main or split,
\* holds at most 100 posts.
RetentionBounded ==
    \A i \in 1..Len(AllLists) : Len(AllLists[i]) <= 100

\* C1 witness: more than 100 posts were processed and the main list and a
\* split list are both full.
RetentionBoundedWitness ==
    /\ Len(dispatched) > 100
    /\ Len(main_list) = 100
    /\ \E i \in 1..Len(splits) : Len(splits[i].list) = 100

\* what the filters are to answer on the strings of the model: `keyword`
\* occurs in `text` when case is ignored
Mentions(keyword, text) ==
    \/ keyword = KeywordCat /\ text \in {TextCats, TextScan, KeywordCat, TextShout}
    \/ keyword = KeywordDogs /\ text = TextDogs
    \/ keyword = KeywordCafe /\ text = TextCafe

\* the panes as records [primary, keyword, list, since], the main pane first
Panes ==
    <<[primary |-> TRUE, keyword |-> main_filter_keyword,
       list |-> main_list, since |-> main_since]>>
    \o [i \in 1..Len(splits) |->
           [primary |-> FALSE, keyword |-> splits[i].filter_keyword,
            list |-> splits[i].list, since |-> splits[i].since]]

\* the pane is to show the post
Wanted(pane, post) ==
    IF pane.keyword = EmptyString
    THEN pane.primary
    ELSE Mentions(pane.keyword, post.text)

\* the posts processed since the pane's list was last emptied that the pane
\* is to show, oldest first
Offered(pane) ==
    SelectSeq(SubSeq(dispatched, pane.since + 1, Len(dispatched)),
              LAMBDA post : Wanted(pane, post))

\* the last n elements of seq, last first
Newest(seq, n) ==
    [i \in 1..(IF Len(seq) < n THEN Len(seq) ELSE n) |-> seq[Len(seq) + 1 - i]]

\* C9: a post a pane accepts goes to the front of its list and the list is
\* cut at the back to 100: the list is always the 100 most recently
\* processed posts the pane accepts (all of them when there are fewer),
\* newest first.
NewestHundredKept ==
    \A i \in 1..Len(Panes) : Panes[i].list = Newest(Offered(Panes[i]), 100)

\* the rkeys of the posts of seq
Keys(seq) == {seq[k].nth : k \in 1..Len(seq)}

\* C6: every post processed since the list of a pane was last emptied that
\* the pane accepts is in the list of that pane.
EveryMatchRetained ==
    \A i \in 1..Len(Panes) :
        Keys(Offered(Panes[i])) \subseteq Keys(Panes[i].list)

---------------------------------------------------------------------------
(* The buffer and the timer *)

\* the step is a run of the timer's closure: nothing else re-arms the source
TimerRan == next_tick' # next_tick \/ (process = "running" /\ process' = "aborted")

\* s is the beginning of t
IsPrefix(s, t) == Len(s) <= Len(t) /\ SubSeq(t, 1, Len(s)) = s

\* C2: whenever message_buffer changes, either the posts it held are still
\* there, in place and in order, before the new post, or the step is a run
\* of the timer while not paused that processes the whole buffer in order
\* and leaves it empty; a step that neither receives nor runs the timer
\* (scroll, add or close a split, search change) leaves the buffer as it is.
BufferOnlyDrained ==
    [][/\ message_buffer' # message_buffer =>
            \/ /\ chan' # chan
               /\ IsPrefix(message_buffer, message_buffer')
               /\ Len(message_buffer') = Len(message_buffer) + 1
            \/ /\ TimerRan
               /\ ~IsPaused
               /\ message_buffer' = << >>
               /\ dispatched' = dispatched \o message_buffer
       /\ (TimerRan /\ IsPaused) => message_buffer' = message_buffer
       /\ (~TimerRan /\ chan' = chan) => message_buffer' = message_buffer]_vars

\* C2 witness: two posts sit in the buffer, the second behind the first;
\* a split was added and closed, the main keyword was changed and a scroll
\* paused the timer.
BufferOnlyDrainedWitness ==
    /\ Len(message_buffer) = 2
    /\ message_buffer[1].nth = 1 /\ message_buffer[2].nth = 2
    /\ widgets = 1 /\ splits = << >>
    /\ main_filter_keyword = KeywordCat
    /\ IsPaused
    /\ dispatched = << >>

\* C3: a run of the timer while paused changes nothing but the timer's own
\* expiration: the buffer, the lists and keywords of all panes, the vector
\* of splits and scroll_paused_until stay as they were.
GatedTickNoOp ==
    [][(TimerRan /\ IsPaused) =>
           UNCHANGED <<message_buffer, main_list, main_filter_keyword,
                       splits, widgets, scroll_paused_until, chan,
                       dispatched>>]_vars

\* C3 witness: the timer ran at the present time, after the scroll that
\* paused it, with posts waiting and a split filtering on "cat"; nothing was
\* processed.
GatedTickNoOpWitness ==
    /\ now > 0 /\ next_tick = now + TickPeriod
    /\ IsPaused /\ scroll_paused_until < now + Cooldown
    /\ Len(message_buffer) = 2 /\ held = message_buffer
    /\ dispatched = << >>
    /\ main_list = << >>
    /\ \E i \in 1..Len(splits) :
           splits[i].filter_keyword = KeywordCat /\ splits[i].list = << >>

\* C4: a run of the timer while not paused and with posts in the buffer
\* passes exactly the posts of the buffer, first collected first, through
\* the loop in that one run, and leaves the buffer empty.
UngatedTickDrains ==
    [][(TimerRan /\ ~IsPaused /\ message_buffer # << >>) =>
           /\ dispatched' = dispatched \o message_buffer
           /\ message_buffer' = << >>]_vars

---------------------------------------------------------------------------
(* The pause *)

\* the posts of s are in t, in the order of s (no post occurs twice)
IsSubSeq(s, t) ==
    SelectSeq(t, LAMBDA post : \E k \in 1..Len(s) : s[k] = post) = s

\* C5: a post collected into the buffer during a pause stays in the buffer,
\* in the order of collection, however often scrolling renews the pause; a
\* run of the timer during the pause processes nothing, and the first run
\* after the pause has run out processes all the posts collected during it
\* in that one run, in the order of collection.
HeldReleasedTogether ==
    [][/\ IsSubSeq(held, message_buffer)
       /\ TimerRan =>
            IF IsPaused
            THEN /\ dispatched' = dispatched
                 /\ message_buffer' = message_buffer
                 /\ held' = held
            ELSE held # << >> =>
                 /\ IsSubSeq(held, SubSeq(dispatched', Len(dispatched) + 1,
                                          Len(dispatched')))
                 /\ dispatched' = dispatched \o message_buffer
                 /\ message_buffer' = << >>
                 /\ held' = << >>]_vars

\* C10: a scroll handler leaves scroll_paused_until at the present time
\* plus 2 s (10 periods of 200 ms), and a run of the timer with posts in the
\* buffer processes them exactly when the present time is not before
\* scroll_paused_until.
GateDeadline ==
    [][/\ scroll_paused_until' # scroll_paused_until =>
            scroll_paused_until' = now + (2 * 1000) \div 200
       /\ (TimerRan /\ message_buffer # << >>) =>
            /\ (now < scroll_paused_until) <=> (message_buffer' = message_buffer)
            /\ (now >= scroll_paused_until) <=> (message_buffer' = << >>)
            /\ (now >= scroll_paused_until) <=> (dispatched' # dispatched)]_vars

---------------------------------------------------------------------------
(* The filters *)

\* C7: while the keyword of the main pane is empty the main list takes
\* every processed post; while the keyword of a split is empty its list
\* takes none and is empty, however many posts are processed.
EmptyFilterAsymmetry ==
    /\ main_filter_keyword = EmptyString =>
           main_list = Newest(SubSeq(dispatched, main_since + 1,
                                     Len(dispatched)), 100)
    /\ \A i \in 1..Len(splits) :
           splits[i].filter_keyword = EmptyString => splits[i].list = << >>

\* the texts of the posts of seq
TextsOf(seq) == [k \in 1..Len(seq) |-> seq[k].text]

\* the batch and the panes of the example
ExampleBatch == <<TextCats, TextDogs, TextScan>>

ExamplePanes ==
    /\ main_filter_keyword = EmptyString
    /\ Len(splits) = 2
    /\ splits[1].filter_keyword = KeywordCat
    /\ splits[2].filter_keyword = EmptyString

\* C8: the list of a pane with a non-empty keyword holds exactly the
\* processed posts whose text contains the keyword when case is ignored on
\* both sides, newest first; with main keyword "", split A "cat" and split
\* B "", the batch ["I like cats", "dogs only", "CAT scan results"] leaves
\* all three in the main list newest first, ["CAT scan results",
\* "I like cats"] in A and nothing in B.
FilterBySubstring ==
    /\ \A i \in 1..Len(Panes) :
           Panes[i].keyword # EmptyString =>
               TextsOf(Panes[i].list) =
                   Newest(SelectSeq(TextsOf(dispatched),
                                    LAMBDA text :
                                        Contains(ToLowercase(text),
                                                 ToLowercase(Panes[i].keyword))),
                          100)
    /\ (ExamplePanes /\ TextsOf(dispatched) = ExampleBatch) =>
           /\ TextsOf(main_list) = <<TextScan, TextDogs, TextCats>>
           /\ TextsOf(splits[1].list) = <<TextScan, TextCats>>
           /\ splits[2].list = << >>

---------------------------------------------------------------------------
(* The one pause of all panes *)

\* the later of two instants
Later(a, b) == IF a >= b THEN a ELSE b

\* a scroll handler ran in the step
Signalled ==
    signal_from' # signal_from \/ scroll_paused_until' # scroll_paused_until

\* C11: scroll_paused_until never decreases, and after a scroll handler of
\* any pane has run it is the later of its previous value and the present
\* time plus 2 s.
DeadlineMonotonic ==
    [][/\ scroll_paused_until' >= scroll_paused_until
       /\ Signalled =>
              scroll_paused_until' =
                  Later(scroll_paused_until, now + (2 * 1000) \div 200)]_vars

\* C11 witness: a split was scrolled two periods after start, when an
\* earlier scroll had already paused the timer: posts collected during that
\* pause are waiting.
DeadlineMonotonicWitness ==
    /\ signal_from >= 1
    /\ now = 2
    /\ scroll_paused_until = now + Cooldown
    /\ Len(held) = 2
    /\ dispatched = << >>

\* the rows of the pane built as `container` in the vector `panes`, none
\* when it is not there
RowsOf(panes, container) ==
    IF Position(panes, container) = 0
    THEN << >>
    ELSE panes[Position(panes, container)].list

\* C12: the scroll handler of any pane, main or split, sets the one
\* scroll_paused_until to the present time plus 2 s, which pauses the
\* timer, and in no step taken during a pause does the list of any pane,
\* main or split, get a post it did not have.
GlobalLatch ==
    [][/\ signal_from' # signal_from =>
              /\ scroll_paused_until' = now + Cooldown
              /\ scroll_paused_until' > now'
       /\ IsPaused =>
              /\ Keys(main_list') \subseteq Keys(main_list)
              /\ \A j \in 1..Len(splits') :
                     Keys(splits'[j].list) \subseteq
                         Keys(RowsOf(splits, splits'[j].container))]_vars

\* C12 witness: the last scroll was on a split; the timer ran after it with
\* posts waiting that the main pane accepts, and no list got any.
GlobalLatchWitness ==
    /\ signal_from >= 1
    /\ IsPaused /\ scroll_paused_until < now + Cooldown
    /\ now > 0 /\ next_tick = now + TickPeriod
    /\ main_filter_keyword = EmptyString
    /\ Len(message_buffer) = 2
    /\ main_list = << >>
    /\ Len(splits) = 1 /\ splits[1].list = << >>

---------------------------------------------------------------------------
(* Order *)

\* C13: the posts the timer's loop has processed are, in the order it
\* processed them, the first of the posts tx.send accepted, in the order of
\* sending: whatever the interleaving of the Jetstream thread, the receiver
\* and the timer, a post sent earlier is processed earlier, within one run
\* of the timer and from one run to the next.
DispatchInForwardOrder ==
    /\ Len(dispatched) <= Len(forwarded)
    /\ \A k \in 1..Len(dispatched) : dispatched[k] = forwarded[k]
    /\ \A k \in 1..Len(forwarded) : forwarded[k].nth = k

\* C13 witness: two posts were processed by two runs of the timer (the
\* main keyword was set between them), the first sent first.
DispatchInForwardOrderWitness ==
    /\ Len(dispatched) = 2
    /\ dispatched[1].nth = 1 /\ dispatched[2].nth = 2
    /\ main_since = 1
    /\ main_filter_keyword = EmptyString
    /\ main_list = <<dispatched[2]>>

---------------------------------------------------------------------------
(* Search entries *)

\* the pane built as `container` in the vector `panes` (it is there)
PaneOf(panes, container) == panes[Position(panes, container)]

\* C14: a step that gives a pane a new keyword (or runs its search handler
\* after more posts were processed) leaves the list of that pane empty in
\* the same step, whatever rows it held; this holds for the main pane and
\* for every split.  The keyword only changes to a keyword a search entry
\* can hold.
FilterChangeClears ==
    [][/\ (main_filter_keyword' # main_filter_keyword
             \/ main_since' # main_since) =>
              /\ main_list' = << >>
              /\ main_filter_keyword' \in Keywords
       /\ \A j \in 1..Len(splits') :
              LET pane == splits'[j]
              IN  Position(splits, pane.container) # 0 =>
                      LET before == PaneOf(splits, pane.container)
                      IN  (pane.filter_keyword # before.filter_keyword
                             \/ pane.since # before.since) =>
                              /\ pane.list = << >>
                              /\ pane.filter_keyword \in Keywords]_vars

\* C14 witness: two posts were processed, "CAT scan results" among them;
\* after that the main pane and a split were given the keyword "cat": both
\* lists are empty although the post contains the keyword.
FilterChangeClearsWitness ==
    /\ Len(dispatched) = 2
    /\ \E k \in 1..2 : dispatched[k].text = TextScan
    /\ main_filter_keyword = KeywordCat /\ main_since = 2
    /\ main_list = << >>
    /\ Len(splits) = 1
    /\ splits[1].filter_keyword = KeywordCat /\ splits[1].since = 2
    /\ splits[1].list = << >>

---------------------------------------------------------------------------
(* The vector of splits *)

\* the containers of the panes of the vector
Containers(panes) == {panes[i].container : i \in 1..Len(panes)}

\* what a run of the timer not paused would make of the buffer `buffer`
\* with the panes `panes`
Replay(list, panes, keyword, buffer) ==
    ProcessBuffer([main_list |-> list, splits |-> panes, processed |-> << >>, panicked |-> FALSE],
                  keyword, buffer)

\* C15: a step in which the close button of a split takes effect removes
\* the pane of that split, with its list, from the vector and no other;
\* the panes that stay keep their order, keyword and rows; the main list,
\* the main keyword, message_buffer, the channel and scroll_paused_until
\* are unchanged; and processing the posts that wait in the buffer gives
\* the main pane and every pane that stays the same rows after the removal
\* as it would have given them before it.
RemovalFrame ==
    [][closed' # closed =>
          \E c \in closed' \ closed :
              /\ closed' = closed \cup {c}
              /\ Containers(splits') = Containers(splits) \ {c}
              /\ Len(splits') = Len(splits) - 1
              /\ \A j \in 1..Len(splits') :
                     splits'[j] = PaneOf(splits, splits'[j].container)
              /\ \A i, j \in 1..Len(splits') :
                     i < j => Position(splits, splits'[i].container)
                                < Position(splits, splits'[j].container)
              /\ UNCHANGED <<main_list, main_filter_keyword, message_buffer,
                             chan, scroll_paused_until, widgets>>
              /\ LET before == Replay(main_list, splits,
                                       main_filter_keyword, message_buffer)
                     after == Replay(main_list', splits',
                                     main_filter_keyword', message_buffer')
                 IN  /\ after.main_list = before.main_list
                     /\ after.splits =
                            SelectSeq(before.splits,
                                      LAMBDA p : p.container # c)]_vars

\* C16: in every reachable state the main pane is there: its container is
\* the first one laid out under the root, it is not an element of the
\* vector of splits that the close buttons remove from, and only
\* containers of splits have ever been closed.
PrimaryAlwaysPresent ==
    /\ layout # << >>
    /\ layout[1] = MainBox
    /\ Len(layout) = Len(splits) + 1
    /\ MainBox \notin Containers(splits)
    /\ closed \subseteq 1..widgets

\* C16 witness: two splits were added and both closed; the main pane alone
\* is laid out and shows the two posts processed.
PrimaryAlwaysPresentWitness ==
    /\ widgets = 2 /\ closed = {1, 2}
    /\ splits = << >>
    /\ layout = <<MainBox>>
    /\ Len(main_list) = 2

\* a split was pushed in the step
SplitAdded == Len(splits') > Len(splits)

\* C17 as stated: whatever keyword is given, the pane that add_split pushes
\* has that keyword as its filter.
AddedWithGivenFilter ==
    [][SplitAdded =>
          \A given \in Keywords :
              splits'[Len(splits')].filter_keyword = given]_vars

\* C17 amended: add_split takes no keyword: the pane it pushes is the last
\* of the vector, its list is empty and its keyword is empty, so that it
\* accepts no post until its search entry is given a keyword; its container
\* was never in the vector before, the panes before it are unchanged, and
\* in every state the panes of the vector have distinct containers, so a
\* container designates one pane for as long as that pane is in the vector.
AddedEmptyUnfiltered ==
    [][/\ SplitAdded =>
              LET pane == splits'[Len(splits')]
              IN  /\ Len(splits') = Len(splits) + 1
                  /\ pane.list = << >>
                  /\ pane.filter_keyword = EmptyString
                  /\ pane.container \notin Containers(splits) \cup closed
                  /\ pane.container \notin 0..widgets
                  /\ SubSeq(splits', 1, Len(splits)) = splits
                  /\ layout' = layout \o <<pane.container>>
       /\ \A i, j \in 1..Len(splits) :
              splits[i].container = splits[j].container => i = j
       /\ \A c \in Containers(splits) \cap Containers(splits') :
              c \notin closed' =>
                  Position(splits', c) <= Position(splits, c)]_vars

\* C17 witness: a split was added after posts had been processed and after
\* an earlier split had been closed: it has a container of its own, no
\* rows and no keyword, while the main pane shows the posts.
AddedEmptyUnfilteredWitness ==
    /\ closed = {1}
    /\ Len(splits) = 1
    /\ splits[1].container = 2
    /\ splits[1].since = 2
    /\ splits[1].filter_keyword = EmptyString
    /\ splits[1].list = << >>
    /\ Len(main_list) = 2

---------------------------------------------------------------------------
(* The thread of start_jetstream and the channel *)

\* C18: whenever the thread of start_jetstream is in its loop (in a process
\* that runs), its send is enabled, for every text and record key: however
\* many posts are in the channel or in message_buffer, whether the timer is
\* paused or not, and whether the receiver keeps up or not, the thread never
\* waits in tx.send.
SendNeverBlocks ==
    (process = "running" /\ bridge = "streaming") =>
        \A text \in Texts : /\ ENABLED JetstreamPost(Event(text))
                            /\ ENABLED JetstreamPost(WideEvent(text))

\* C18 witness: the thread is in its loop while two posts are in the
\* channel, one is in the buffer and the timer is paused.
SendNeverBlocksWitness ==
    /\ process = "running"
    /\ bridge = "streaming"
    /\ Len(chan) = 2
    /\ Len(message_buffer) = 1
    /\ IsPaused
    /\ context_alive

\* C19: during a pause the thread can still send and the receiver can
\* still take what is in the channel; a post taken during a pause is put at
\* the back of message_buffer; and the only thing the pause changes is that
\* a run of the timer leaves the buffer as it is.
IngestionDuringPause ==
    [][IsPaused =>
          /\ bridge = "streaming" => ENABLED JetstreamPost(Event(TextCats))
          /\ (chan # << >> /\ context_alive) => ENABLED Intake
          /\ Len(chan') < Len(chan) =>
                 /\ message_buffer' = Append(message_buffer, Head(chan))
                 /\ chan' = Tail(chan)
          /\ Len(forwarded') > Len(forwarded) =>
                 chan' = Append(chan, forwarded'[Len(forwarded')])
          /\ TimerRan => message_buffer' = message_buffer]_vars

\* C19 witness: three posts were sent and collected during a pause and are
\* in the buffer in the order of sending; the timer ran during the pause
\* and processed nothing.
IngestionDuringPauseWitness ==
    /\ IsPaused /\ scroll_paused_until < now + Cooldown
    /\ now > 0 /\ next_tick = now + TickPeriod
    /\ Len(held) = 3
    /\ message_buffer = forwarded
    /\ held = message_buffer
    /\ dispatched = << >>

\* C20: once the main context has dropped the receiver, the thread, if it
\* is in its loop, can still try a send; that send queues nothing and ends
\* the function with Ok(()), not with an error; nothing is sent after the
\* receiver is gone; and after the return the thread does nothing more.
BridgeStopsOnClosedQueue ==
    [][/\ (~context_alive /\ bridge = "streaming") =>
              /\ ENABLED JetstreamPost(Event(TextCats))
              /\ bridge' # bridge => bridge' = "ok"
       /\ ~context_alive => (forwarded' = forwarded /\ chan' = chan)
       /\ bridge \in {"ok", "err"} =>
              (bridge' = bridge /\ forwarded' = forwarded)]_vars

\* C20 witness: the receiver went away after two posts were sent, one of
\* them still in the channel; the next send failed and start_jetstream
\* returned Ok(()) without sending a third.
BridgeStopsOnClosedQueueWitness ==
    /\ ~context_alive
    /\ bridge = "ok"
    /\ Len(forwarded) = 2
    /\ Len(chan) = 1

---------------------------------------------------------------------------
(* The pipeline while the main pane is scrolled again and again: a period
   passes only when the pause in force covers the next timer run; posts are
   sent during the pauses *)

NextStarve ==
    \/ /\ Len(forwarded) < StarvePosts
       /\ chan = << >>
       /\ IsPaused
       /\ JetstreamPost(Event(TextCats))
    \/ /\ forwarded = << >>
       /\ chan = << >>
       /\ IsPaused
       /\ JetstreamPost(WideEvent(TextCats))
    \/ JetstreamConnect
    \/ Intake
    \/ Tick
    \/ /\ now < StarveTime
       /\ chan = << >>
       /\ scroll_paused_until > now + TickPeriod
       /\ Advance(0)
    \/ Scroll(MainBox)

SpecStarve == Init /\ [][NextStarve]_vars

---------------------------------------------------------------------------
(* Keywords set and splits added before the first post and again while the
   posts wait in message_buffer; one timer run follows *)

NextLate ==
    \/ \E text \in UnicodeTexts :
           Len(forwarded) < LatePosts /\ JetstreamPost(Event(text))
    \/ Len(forwarded) < LatePosts /\ JetstreamPost(WideEvent(TextScan))
    \/ JetstreamConnect
    \/ Intake
    \/ Tick
    \/ now < TickPeriod /\ Advance(0)
    \/ /\ forwarded = << >> \/ Len(message_buffer) = LatePosts
       /\ widgets < LateWidgets
       /\ AddSplit
    \/ \E k \in UnicodeKeywords :
           /\ forwarded = << >> \/ Len(message_buffer) = LatePosts
           /\ MainSearchChanged(k)
    \/ \E c \in 1..widgets, k \in UnicodeKeywords :
           /\ forwarded = << >> \/ Len(message_buffer) = LatePosts
           /\ SplitSearchChanged(c, k)

SpecLate == Init /\ [][NextLate]_vars

---------------------------------------------------------------------------
(* The end of the Jetstream stream *)

\* the thread of start_jetstream has ended: the function returned, or
\* Runtime::new().unwrap() panicked before it was called
ThreadEnded == bridge \in {"ok", "err", "panicked"}

\* C22: when the thread of start_jetstream ends while the view lives (the
\* stream ended, the connection failed, or the runtime could not be built),
\* the step changes nothing of the view: channel,
\* arrival buffer, panes, pause deadline, timer and main context stay as they
\* are; afterwards the receiver still collects what is in the channel and a
\* due tick still runs and, unless paused, processes the whole buffer.
StreamEndLeavesPipeline ==
    [][/\ (context_alive /\ ~ThreadEnded /\ ThreadEnded') =>
             UNCHANGED <<chan, message_buffer, main_list, main_filter_keyword,
                         splits, layout, scroll_paused_until, next_tick,
                         context_alive, forwarded, dispatched>>
       /\ (context_alive /\ ThreadEnded) =>
             /\ chan # << >> => ENABLED Intake
             /\ now >= next_tick => ENABLED Tick
             /\ (TimerRan /\ ~IsPaused) =>
                    /\ dispatched' = dispatched \o message_buffer
                    /\ message_buffer' = << >>
             /\ forwarded' = forwarded]_vars

---------------------------------------------------------------------------
(* The end of the program *)

\* C23 as stated: the pipeline is stopped only after the thread has stopped
\* and the timer has processed the posts left in message_buffer: when the
\* program has ended, start_jetstream has returned Ok(()) and the buffer is
\* empty.
DrainingThenStopped ==
    process = "exited" => (bridge = "ok" /\ message_buffer = << >>)

\* C23: the receiver is never dropped while the program runs, so the thread
\* never stops because of it: start_jetstream returns Ok(()) only when the
\* stream has ended.  The pipeline stops only with the process, and the
\* step that ends the process (the return of main after the window was
\* closed) processes nothing: the posts in the channel and in
\* message_buffer stay where they are, the thread is not told, the timer is
\* not run once more.  After the process has ended nothing arrives, no
\* timer runs and nothing is processed.
StoppedWithoutDraining ==
    [][/\ process = "running"
       /\ context_alive /\ context_alive'
       /\ (bridge # "ok" /\ bridge' = "ok") =>
              (forwarded' = forwarded /\ chan' = chan /\ stderr' = stderr)
       /\ process' = "exited" =>
              UNCHANGED <<chan, message_buffer, dispatched, forwarded,
                          main_list, splits, next_tick, bridge, stderr,
                          scroll_paused_until>>]_vars

\* C23 witness: the program ended with one post processed, one in
\* message_buffer and one in the channel, the thread still in its loop and
\* a timer run due.
StoppedWithoutDrainingWitness ==
    /\ process = "exited"
    /\ bridge = "streaming"
    /\ Len(dispatched) = 1
    /\ Len(message_buffer) = 1
    /\ Len(chan) = 1
    /\ now >= next_tick

---------------------------------------------------------------------------
(* Splits and the batches before them *)

\* C24: a split is never given posts that were processed before it was
\* added: add_split records how many posts had been processed, that mark
\* never moves back while the pane is in the vector, and every row of a
\* split is a post processed after the mark.
NoRetroactiveFeed ==
    [][/\ SplitAdded =>
              splits'[Len(splits')].since = Len(dispatched)
       /\ \A c \in Containers(splits) \cap Containers(splits') :
              PaneOf(splits', c).since >= PaneOf(splits, c).since
       /\ \A i \in 1..Len(splits') :
              \A k \in 1..Len(splits'[i].list) :
                  \E j \in (splits'[i].since + 1)..Len(dispatched') :
                      dispatched'[j] = splits'[i].list[k]]_vars

\* C24 witness: two posts that mention dogs were processed by two timer
\* runs; a split whose mark is after the first shows the second only.
NoRetroactiveFeedWitness ==
    /\ Len(dispatched) = 2
    /\ \A j \in 1..2 : dispatched[j].text = TextDogs
    /\ Len(main_list) = 2
    /\ Len(splits) = 1
    /\ splits[1].since = 1
    /\ splits[1].filter_keyword = KeywordDogs
    /\ splits[1].list = <<dispatched[2]>>

---------------------------------------------------------------------------
(* One run of the timer's loop *)

\* a step in which posts were processed
Processing == dispatched' # dispatched

\* the posts processed by the step
Batch == SubSeq(dispatched', Len(dispatched) + 1, Len(dispatched'))

\* the posts of the step whose iteration came to its end: all the posts the
\* loop reached, or all but the last when the run ended in a panic
Completed ==
    IF process' = process THEN Batch ELSE SubSeq(Batch, 1, Len(Batch) - 1)

---------------------------------------------------------------------------
(* What a run of the timer's loop changes *)

\* the posts of seq the pane is to show, in the order of seq
WantedOf(pane, seq) == SelectSeq(seq, LAMBDA post : Wanted(pane, post))

---------------------------------------------------------------------------
(* Rows appear at timer runs only *)

\* C27: rows are added only by runs of the timer, however fast posts
\* arrive: a step that is not a timer run (a send, the receiver collecting
\* a post, a handler) adds no row to any list and processes nothing; a
\* timer run needs the time to have reached next_tick and puts next_tick
\* one period after the present, so two runs are a period apart; and a run
\* either processes nothing or processes, at once, all the posts collected
\* since the last processing.
UpdatesOnlyOnTicks ==
    [][/\ ~TimerRan =>
              /\ dispatched' = dispatched
              /\ Keys(main_list') \subseteq Keys(main_list)
              /\ \A c \in Containers(splits) \cap Containers(splits') :
                     Keys(RowsOf(splits', c)) \subseteq Keys(RowsOf(splits, c))
       /\ TimerRan =>
              /\ now >= next_tick
              /\ next_tick' = now + TickPeriod
              /\ now' = now
              /\ dispatched' \in {dispatched, dispatched \o message_buffer}
              /\ Processing => message_buffer' = << >>]_vars

---------------------------------------------------------------------------
(* From tx.send to the timer's loop *)

\* C28: in every state the posts sent so far are exactly the posts
\* processed so far, followed by the posts in message_buffer, followed by
\* the posts in the channel, in this order: between tx.send and the timer's
\* loop no post is lost, duplicated, invented or reordered, whatever the
\* thread, the receiver, the timer and the scroll handler do in between.
HandoffConserves ==
    forwarded = dispatched \o message_buffer \o chan

---------------------------------------------------------------------------
(* Rows and the keyword in force *)

\* C29: in every state every row of every pane is a post that the pane's
\* present keyword wants: in a split the keyword is not empty and the text
\* mentions it, whatever the case of the letters; in the main pane the
\* keyword is empty or the text mentions it.
RowsMatchFilter ==
    \A i \in 1..Len(Panes) :
        \A k \in 1..Len(Panes[i].list) :
            Wanted(Panes[i], Panes[i].list[k])

\* C29 witness: a post about dogs was shown by the main pane without
\* keyword; then the main pane and a split were given the keyword cat, which
\* emptied their lists, and the next post, CAT scan, is the only row of both.
RowsMatchFilterWitness ==
    /\ TextsOf(dispatched) = <<TextDogs, TextScan>>
    /\ main_filter_keyword = KeywordCat
    /\ main_since = 1
    /\ main_list = <<dispatched[2]>>
    /\ Len(splits) = 1
    /\ splits[1].filter_keyword = KeywordCat
    /\ splits[1].since = 1
    /\ splits[1].list = <<dispatched[2]>>

---------------------------------------------------------------------------
(* Each post is processed once *)

\* seq holds no post twice
NoRepeat(seq) ==
    \A j, k \in 1..Len(seq) : seq[j].nth = seq[k].nth => j = k

---------------------------------------------------------------------------
(* Delivery after the last scroll *)

\* C31: when the timer keeps running, the receiver keeps collecting and the
\* panes are no longer scrolled, every post that was sent is processed in
\* the end: a pause delays the processing and does not prevent it.
EveryPostProcessed ==
    \A k \in 1..LivePosts :
        (Len(forwarded) >= k) ~> (Len(dispatched) >= k)

---------------------------------------------------------------------------
(* Scrolling that does not stop *)

\* C32: while the main pane is scrolled again before each pause runs out,
\* no timer run processes anything and message_buffer takes every post
\* sent, without a limit: nothing is processed or shown, and the buffer
\* with the channel holds all the posts sent, in the order of sending,
\* however many they are.
StarvedBufferGrows ==
    /\ dispatched = << >>
    /\ main_list = << >>
    /\ forwarded = message_buffer \o chan
    /\ Len(chan) <= 1

\* C32 witness: more than 2 s after the first scroll the timer is still
\* paused, it has run, and message_buffer holds 101 posts, one more than a
\* list keeps.
StarvedBufferGrowsWitness ==
    /\ now > Cooldown
    /\ next_tick = now + TickPeriod
    /\ IsPaused
    /\ Len(message_buffer) = MaxMessages + 1
    /\ dispatched = << >>

---------------------------------------------------------------------------
(* The pause at the start *)

\* C33: the view starts without a pause: as long as no pane has been
\* scrolled, scroll_paused_until is the time of creation, which is not
\* after the present, and a timer run that finds posts in the buffer
\* processes them all.
StartsUngated ==
    [][signal_from = -1 =>
          /\ scroll_paused_until = 0
          /\ scroll_paused_until <= now
          /\ (TimerRan /\ message_buffer # << >>) =>
                 /\ dispatched' = dispatched \o message_buffer
                 /\ message_buffer' = << >>]_vars

---------------------------------------------------------------------------
(* Keywords at the time of processing *)

\* the posts the timer's loop has reached and built the rows of: all the
\* posts it reached, but for the last when its iteration panicked
Built ==
    IF process = "aborted"
    THEN SubSeq(dispatched, 1, Len(dispatched) - 1)
    ELSE dispatched

---------------------------------------------------------------------------
(* A timer run with nothing to do *)

\* C35: a timer run that is not paused and finds message_buffer empty
\* changes nothing of the view: lists, keywords, the vector of splits, the
\* layout, the deadline, the buffer and the channel are as before and no
\* post is processed; only the timer is armed for the next period.
IdleTickNoOp ==
    [][(TimerRan /\ ~IsPaused /\ message_buffer = << >>) =>
           /\ UNCHANGED <<main_list, main_filter_keyword, splits, widgets,
                          layout, closed, scroll_paused_until,
                          message_buffer, chan, forwarded, dispatched,
                          released, context_alive>>
           /\ next_tick' = now + TickPeriod]_vars

\* C35 witness: no pane was ever scrolled; the timer ran at the first and
\* at the second period, and only one post was ever sent, so one of the two
\* runs found the buffer empty; the post is shown, the deadline is the
\* time of creation.
IdleTickNoOpWitness ==
    /\ signal_from = -1
    /\ now = 2 * TickPeriod
    /\ next_tick = now + TickPeriod
    /\ Len(forwarded) = 1
    /\ dispatched = forwarded
    /\ main_list = dispatched
    /\ scroll_paused_until = 0

---------------------------------------------------------------------------
(* Panes do not depend on one another *)

\* C36: what a pane shows does not depend on the other panes: a timer run
\* gives each split the rows it would give it if it were the only split of
\* the vector, and the main pane the rows it would give it without any
\* split; and any other step changes the rows or the keyword of at most
\* one pane: adding or closing a split changes no pane that stays, and
\* setting the keyword of a pane changes no other pane.
PanesIndependent ==
    [][/\ Processing =>
              /\ main_list' = Replay(main_list, << >>, main_filter_keyword,
                                     message_buffer).main_list
              /\ Len(splits') = Len(splits)
              /\ \A i \in 1..Len(splits) :
                     <<splits'[i]>> = Replay(main_list, <<splits[i]>>,
                                             main_filter_keyword,
                                             message_buffer).splits
       /\ ~Processing =>
              LET stay == Containers(splits) \cap Containers(splits')
                  same(c) == PaneOf(splits', c) = PaneOf(splits, c)
                  mainSame == /\ main_list' = main_list
                              /\ main_filter_keyword' = main_filter_keyword
              IN  /\ Containers(splits') # Containers(splits) =>
                         mainSame /\ \A c \in stay : same(c)
                  /\ ~mainSame => \A c \in stay : same(c)
                  /\ \A c, d \in stay : c # d => same(c) \/ same(d)]_vars

---------------------------------------------------------------------------
(* What a scroll changes *)

\* C37: a scroll handler, of the main pane or of a split, writes
\* scroll_paused_until and nothing else: message_buffer, the channel, every
\* list, every keyword, the vector of splits with its order, the layout,
\* the posts processed and the timer are as before.
ScrollFrame ==
    [][Signalled =>
          /\ UNCHANGED <<message_buffer, chan, main_list,
                         main_filter_keyword, splits, widgets, layout,
                         closed, forwarded, dispatched, next_tick, now,
                         context_alive>>
          /\ scroll_paused_until' >= scroll_paused_until]_vars

\* C37 witness: the split was scrolled after the main pane had shown a post
\* and while another post was waiting in the buffer: the row, the waiting
\* post and the split with its keyword are still there.
ScrollFrameWitness ==
    /\ signal_from = 1
    /\ scroll_paused_until = now + Cooldown
    /\ Len(main_list) = 1
    /\ Len(message_buffer) = 1
    /\ held = << >>
    /\ Len(splits) = 1
    /\ splits[1].filter_keyword = KeywordCat

---------------------------------------------------------------------------
(* The timer and the receiver while the view lives *)

\* the flume::Sender handles alive, one in every clone of FirehoseControl
\* and one in the thread: the control create_firehose_view returns to its
\* caller; control_clone in the timer closure, for as long as the main
\* context keeps the timer; tx_clone, which the thread owns until
\* start_jetstream returns or Runtime::new().unwrap() panics; the clone in the close handler of every split built; the clone
\* in every tick callback rebuild_layout has added to the root container
\* (one for every add_split, every split removed and every change of
\* orientation).  The handlers of the widgets are not sources of the main
\* context and are never disconnected.  `tx` itself is dropped when
\* create_firehose_view returns.
SenderHandles ==
    1 + (IF context_alive THEN 1 ELSE 0)
      + (IF bridge \in {"connecting", "streaming"} THEN 1 ELSE 0)
      + widgets
      + tick_callbacks

\* rx.recv_async() is an Err: every sender is dropped and the channel is
\* empty, the `while let` of the receiver future ends
RecvDisconnected == SenderHandles = 0 /\ chan = << >>

\* C38: the timer stays armed and the receiver's loop never ends: every
\* run of the timer closure sets the next expiration one period ahead,
\* paused or not, buffer empty or not, thread ended or not; recv_async is
\* never disconnected, also after the thread has ended, because the clones
\* of the control keep their Sender: but for the thread's own handle, no
\* step lowers the number of handles; and no step of the thread, the
\* receiver, the timer or the layout ends the view.
TimerNeverStops ==
    [][/\ ~RecvDisconnected
       /\ ThreadEnded => SenderHandles >= 1
       /\ bridge' = bridge => SenderHandles' >= SenderHandles
       /\ next_tick <= now + TickPeriod
       /\ now >= next_tick => ENABLED Tick
       /\ TimerRan => next_tick' = now + TickPeriod
       /\ context_alive /\ context_alive']_vars

---------------------------------------------------------------------------
(* A split after its close button *)

\* C39: a split whose close button has taken effect is in the vector of
\* splits neither before nor after any later step, and its container is
\* not laid out, so the loop of broadcast_message never reaches its list:
\* a step that processes posts changes the main list and the lists of the
\* panes still in the vector, none of them closed; the vector shrinks only
\* in a step that closes a split not closed before; and the close handler
\* of a split already closed finds no position and changes nothing.
RemovedStaysOut ==
    [][/\ \A c \in closed :
              /\ Position(splits, c) = 0
              /\ Position(splits', c) = 0
              /\ \A i \in 1..Len(layout') : layout'[i] # c
              /\ CloseSplit(c) => UNCHANGED vars
       /\ Processing =>
              /\ Len(splits') = Len(splits)
              /\ \A i \in 1..Len(splits') :
                     /\ splits'[i].container = splits[i].container
                     /\ splits'[i].container \notin closed'
       /\ Len(splits') < Len(splits) =>
              /\ closed' # closed
              /\ Len(splits') = Len(splits) - 1]_vars

\* C39 witness: the first split was closed; the second, added or emptied
\* after the first post was processed, shows the second post, and the main
\* list shows both.
RemovedStaysOutWitness ==
    /\ closed = {1}
    /\ Len(splits) = 1
    /\ splits[1].container = 2
    /\ splits[1].filter_keyword = KeywordDogs
    /\ splits[1].since = 1
    /\ Len(dispatched) = 2
    /\ Len(splits[1].list) = 1
    /\ Len(main_list) = 2
    /\ message_buffer = << >>

=============================================================================
